---- MODULE Spec2Model ----
(***************************************************************************)
(* Draft cup state machine of draftus: the registry of cups per channel,   *)
(* the command handlers (start, abort, add, remove, close, pick, reopen,   *)
(* teamsize) and the pick-order engine (currentPickup, whoPicks,           *)
(* addPlayerToTeam).  Roster and team indices are 0-based as in the Go     *)
(* source, with -1 as the "none" value; the sequences themselves are       *)
(* 1-based, so slot i of the source is element i+1 of the sequence.        *)
(***************************************************************************)
EXTENDS Integers, Sequences, FiniteSets, TLC

VARIABLES
    activeCups,   \* cup.go: activeCups map, channel -> cup (or NoCup)
    reply,        \* outcome of the last handler: the message branch it took
    order,        \* teams served by the picks of the current pass, in order
    closed,       \* the cup as the last close left it, see Closed
    starts,       \* start handlers under way at once, see SpecRace
    lockCups,     \* cup.go: lockCups, the goroutine holding it (0: free)
    procs,        \* goroutines between their steps, see SpecLock, SpecPicks
    files,        \* ChannelDataDir: file name -> contents, see SpecPersist
    naming,       \* chooseTeamNames under way, see SpecNames
    handover      \* the first withdrawal of a captain, see SpecSwap

vars == <<activeCups, reply, order, closed, starts, lockCups, procs, files, naming,
          handover>>

\* What a command handler run on its own leaves alone
aside == <<starts, lockCups, procs, files, naming, handover>>

\* What the start handlers of SpecRace leave alone
rest == <<lockCups, procs, files, naming, handover>>

----------------------------------------------------------------------------
(* Bounds of the model *)

MaxUsers == 3           \* user IDs are 1..MaxUsers
MaxTeamSize == 2        \* team sizes a manager asks for are 1..MaxTeamSize
MaxDraftActive == 5     \* SpecDraft: most active slots with free pick requests
MaxReopenActive == 6    \* SpecDraft: most active slots with reopen requests
MaxSwapActive == 4      \* SpecDraft: most active slots with remove requests
MaxDraftSubs == 1       \* SpecDraft: largest number of substitutes at close
MaxOrderTeams == 4      \* SpecDraft: largest number of teams
MaxOrderTeamSize == 5   \* SpecDraft: largest team size
MaxRoster == 5           \* SpecRoster: most users signed up
MaxRosterTeamSize == 2   \* SpecRoster: largest team size
MaxStarts == 3           \* SpecRace: start requests handled at once
MaxPassSubs == 1         \* SpecPass: most substitutes after late sign-ups
MaxAttributes == 2       \* SpecNames: entries of Attributes in use
MaxNouns == 2            \* SpecNames: entries of Nouns in use
MaxNameTeams == 3        \* SpecNames: most teams to name
MaxPersistUsers == 5     \* SpecPersist: user IDs are 1..MaxPersistUsers
MaxHandlers == 2         \* SpecLock: handler goroutines
MaxPickers == 2          \* SpecPicks: pick requests handled at once
MaxPickTeamSize == 2     \* SpecPicks: largest team size
MaxPickSubs == 0         \* SpecPicks: most substitutes
MaxFaultPlayers == 5     \* SpecFault: most players with free requests
MaxFaultUsers == 2       \* SpecFault: requests come from users 1..MaxFaultUsers
MaxSingleUsers == 4      \* SpecSingle: requests come from users 1..MaxSingleUsers
MaxSinglePick == 4       \* SpecSingle: player numbers asked for are 1..MaxSinglePick
MaxLiveTeamSize == 2     \* SpecLive: largest team size
MaxLiveSubs == 1         \* SpecLive: most substitutes
MaxAllUsers == 3         \* SpecAll: user IDs are 1..MaxAllUsers

Users == 1..MaxUsers
Channels == {"c1"}

----------------------------------------------------------------------------
(* Program constants and flags *)

CupStatusInactive == 0
CupStatusSignup == 1
CupStatusPickup == 2

DefaultTeamSize == 4
MinimumTeams == 2

\* devHacks: developer flags, at their command-line defaults
allowDuplicates == FALSE
fillUpOnClose == 0
saveOnWho == FALSE

\* chooseTeamNames: draws per team
MaxRetries == 100

NoCup == [Status |-> CupStatusInactive]
NoPlayer == [ID |-> 0]

\* m.Author.Username of user u
Username(u) == <<"name", u>>

\* A command argument string as parseToken/strconv.Atoi see it: no token,
\* a token that is not a number, or a decimal number.
NoToken == [kind |-> "none"]
BadToken == [kind |-> "text"]
Word(w) == [kind |-> "word", val |-> w]
Num(n) == [kind |-> "num", val |-> n]

----------------------------------------------------------------------------
(* cup.go: entities and pure helpers *)

makePlayer(u) == [Name |-> Username(u), ID |-> u, Team |-> -1, Next |-> -1]

\* Player.resetTeam taking the player off the team but leaving the link
PlayerResetTeam_KeepNext(player) ==
    [player EXCEPT !.Team = -1]

PlayerResetTeam(player) == [player EXCEPT !.Team = -1, !.Next = -1]

TeamResetTeam == [First |-> -1, Last |-> -1]

getCup(channelID) == activeCups[channelID]

newCup(channelID) ==
    [Status |-> CupStatusSignup,
     Moderated |-> FALSE,
     ChannelID |-> channelID,
     TeamSize |-> DefaultTeamSize,
     PickedPlayers |-> 0,
     Manager |-> [Name |-> <<>>, ID |-> 0, Team |-> 0, Next |-> 0],
     Players |-> <<>>,
     Teams |-> <<>>]

RECURSIVE findPlayerFrom(_, _, _)
findPlayerFrom(currentCup, id, i) ==
    IF i >= Len(currentCup.Players) THEN -1
    ELSE IF currentCup.Players[i + 1].ID = id THEN i
    ELSE findPlayerFrom(currentCup, id, i + 1)

\* findPlayer starting its scan at the second roster slot
findPlayer_SkipFirst(currentCup, id) == findPlayerFrom(currentCup, id, 1)

findPlayer(currentCup, id) == findPlayerFrom(currentCup, id, 0)

activePlayerCount(currentCup) == Len(currentCup.Teams) * currentCup.TeamSize

\* minPlayerCount asking for one full team only
minPlayerCount_OneTeam(currentCup) == currentCup.TeamSize

minPlayerCount(currentCup) == currentCup.TeamSize * MinimumTeams

RECURSIVE findAvailableFrom(_, _, _, _)
findAvailableFrom(currentCup, numActive, i, nth) ==
    IF i >= numActive THEN -1
    ELSE IF currentCup.Players[i + 1].Team = -1
         THEN IF nth = 0 THEN i
              ELSE findAvailableFrom(currentCup, numActive, i + 1, nth - 1)
         ELSE findAvailableFrom(currentCup, numActive, i + 1, nth)

findAvailablePlayer(currentCup, nth) ==
    LET numActive == activePlayerCount(currentCup) IN
    IF nth < 0 \/ nth > numActive THEN -1
    ELSE findAvailableFrom(currentCup, numActive, 0, nth)

nextAvailablePlayer(currentCup) == findAvailablePlayer(currentCup, 0)

\* isManager taking every user with a message for the manager
isManager_Anyone(currentCup, id) ==
    id # 0

isManager(currentCup, id) ==
    currentCup.Status # CupStatusInactive /\ currentCup.Manager.ID = id

\* currentPickup reversing the order in every round from the third on
currentPickup_MirrorFromThird(currentCup) ==
    LET nthPlayer == currentCup.PickedPlayers \div Len(currentCup.Teams)
        nthTeam == currentCup.PickedPlayers % Len(currentCup.Teams)
    IN  IF nthPlayer >= 2
        THEN [Team |-> Len(currentCup.Teams) - 1 - nthTeam, Player |-> nthPlayer]
        ELSE [Team |-> nthTeam, Player |-> nthPlayer]

currentPickup(currentCup) ==
    LET nthPlayer == currentCup.PickedPlayers \div Len(currentCup.Teams)
        nthTeam == currentCup.PickedPlayers % Len(currentCup.Teams)
    IN  IF nthPlayer >= 2 /\ nthPlayer <= 3
        THEN [Team |-> Len(currentCup.Teams) - 1 - nthTeam, Player |-> nthPlayer]
        ELSE [Team |-> nthTeam, Player |-> nthPlayer]

\* whoPicks giving every seat of every team to the manager
whoPicks_ManagerOnly(currentCup, pickup) ==
    IF currentCup.Status # CupStatusPickup THEN NoPlayer
    ELSE IF pickup.Player < 0 \/ pickup.Player >= currentCup.TeamSize THEN NoPlayer
    ELSE IF pickup.Team < 0 \/ pickup.Team >= Len(currentCup.Teams) THEN NoPlayer
    ELSE currentCup.Manager

whoPicks(currentCup, pickup) ==
    IF currentCup.Status # CupStatusPickup THEN NoPlayer
    ELSE IF pickup.Player < 0 \/ pickup.Player >= currentCup.TeamSize THEN NoPlayer
    ELSE IF pickup.Team < 0 \/ pickup.Team >= Len(currentCup.Teams) THEN NoPlayer
    ELSE IF pickup.Player = 0 THEN currentCup.Manager
    ELSE LET index == currentCup.Teams[pickup.Team + 1].First IN
         IF index < 0 \/ index >= Len(currentCup.Players) THEN NoPlayer
         ELSE currentCup.Players[index + 1]

\* addPlayerToTeam putting the player at the head of the team's list
addPlayerToTeam_AtHead(currentCup, playerIndex, teamIndex) ==
    IF playerIndex < 0 \/ playerIndex >= Len(currentCup.Players) THEN currentCup
    ELSE IF teamIndex < 0 \/ teamIndex >= Len(currentCup.Teams) THEN currentCup
    ELSE IF currentCup.Players[playerIndex + 1].Team # -1 THEN currentCup
    ELSE LET team == currentCup.Teams[teamIndex + 1] IN
         IF team.First = -1
         THEN [currentCup EXCEPT
                 !.Players[playerIndex + 1].Team = teamIndex,
                 !.Teams[teamIndex + 1].First = playerIndex,
                 !.Teams[teamIndex + 1].Last = playerIndex,
                 !.PickedPlayers = @ + 1]
         ELSE [currentCup EXCEPT
                 !.Players[playerIndex + 1].Team = teamIndex,
                 !.Players[playerIndex + 1].Next = team.First,
                 !.Teams[teamIndex + 1].First = playerIndex,
                 !.PickedPlayers = @ + 1]

\* addPlayerToTeam without the PickedPlayers++ of cup.go:361
addPlayerToTeam_NoCount(currentCup, playerIndex, teamIndex) ==
    IF playerIndex < 0 \/ playerIndex >= Len(currentCup.Players) THEN currentCup
    ELSE IF teamIndex < 0 \/ teamIndex >= Len(currentCup.Teams) THEN currentCup
    ELSE IF currentCup.Players[playerIndex + 1].Team # -1 THEN currentCup
    ELSE LET team == currentCup.Teams[teamIndex + 1] IN
         IF team.First = -1
         THEN [currentCup EXCEPT
                 !.Players[playerIndex + 1].Team = teamIndex,
                 !.Teams[teamIndex + 1].First = playerIndex,
                 !.Teams[teamIndex + 1].Last = playerIndex]
         ELSE [currentCup EXCEPT
                 !.Players[playerIndex + 1].Team = teamIndex,
                 !.Players[team.Last + 1].Next = playerIndex,
                 !.Teams[teamIndex + 1].Last = playerIndex]

addPlayerToTeam(currentCup, playerIndex, teamIndex) ==
    IF playerIndex < 0 \/ playerIndex >= Len(currentCup.Players) THEN currentCup
    ELSE IF teamIndex < 0 \/ teamIndex >= Len(currentCup.Teams) THEN currentCup
    ELSE IF currentCup.Players[playerIndex + 1].Team # -1 THEN currentCup
    ELSE LET team == currentCup.Teams[teamIndex + 1] IN
         IF team.First = -1
         THEN [currentCup EXCEPT
                 !.Players[playerIndex + 1].Team = teamIndex,
                 !.Teams[teamIndex + 1].First = playerIndex,
                 !.Teams[teamIndex + 1].Last = playerIndex,
                 !.PickedPlayers = @ + 1]
         ELSE [currentCup EXCEPT
                 !.Players[playerIndex + 1].Team = teamIndex,
                 !.Players[team.Last + 1].Next = playerIndex,
                 !.Teams[teamIndex + 1].Last = playerIndex,
                 !.PickedPlayers = @ + 1]

\* getLineup: the roster slots of team `index` in list order, First first.
\* (The source joins the names; the walk stops after as many steps as the
\* roster has slots, plus one, where a cyclic list would go on for ever.)
RECURSIVE lineupFrom(_, _, _)
lineupFrom(currentCup, playerIndex, steps) ==
    IF playerIndex = -1 \/ steps = 0 THEN <<>>
    ELSE <<playerIndex>> \o
         lineupFrom(currentCup, currentCup.Players[playerIndex + 1].Next, steps - 1)

getLineup(currentCup, index) ==
    IF index < 0 \/ index >= Len(currentCup.Teams) THEN <<>>
    ELSE lineupFrom(currentCup, currentCup.Teams[index + 1].First,
                    Len(currentCup.Players) + 1)

----------------------------------------------------------------------------
(* cup.go: the registry *)

addCup(cups, channelID) == [cups EXCEPT ![channelID] = newCup(channelID)]

\* deleteCup keeping the map entry and marking the cup inactive
deleteCup_MarkInactive(cups, channelID) ==
    IF cups[channelID] = NoCup THEN cups
    ELSE [cups EXCEPT ![channelID].Status = CupStatusInactive]

deleteCup(cups, channelID) == [cups EXCEPT ![channelID] = NoCup]

\* The handlers mutate the cup they fetched through its pointer; with one
\* handler running at a time that is an update of the registered cup.
store(channelID, currentCup) == [activeCups EXCEPT ![channelID] = currentCup]

\* isSuperUser: the manager, or a member the guild gives an admin role
\* (hasAdminRole is the answer of the role lookup, an external service).
isSuperUser(currentCup, id, hasAdminRole) ==
    isManager(currentCup, id) \/ hasAdminRole

\* closed remembers the cup as the last close left it and how many players
\* that close kept, for as long as only picks and a reopen have changed the
\* cup since; any other accepted command forgets it.  When the close comes
\* right after a reopen and keeps as many players as the close before it,
\* `before` is the cup as that earlier close left it, until the next pick.
NoClose == [cup |-> NoCup, kept |-> 0, before |-> NoCup]
Closed(currentCup, signedUp) ==
    [cup |-> currentCup, kept |-> signedUp,
     before |-> IF reply.kind = "reopen: teams discarded, cup reopened"
                   /\ closed.kept = signedUp
                THEN closed.cup
                ELSE NoCup]

\* No start handler is between its steps: the handlers run one at a time.
NoStarts == [at |-> <<>>, registered |-> 0]

\* The handlers run one at a time, each from its first statement to its
\* last: no goroutine is between two steps, nobody holds lockCups, the
\* data directory is empty and no team is being named.
NoProcs == <<>>
NoFiles == <<>>
NoNaming == <<>>

\* handover: a history kept when handover.kept: the user who first withdrew
\* while holding a team's first slot, the substitute swapped into that slot
\* and the team
NoHandover == [kept |-> FALSE, leaver |-> 0, newcomer |-> 0, team |-> -1]

AtRest ==
    /\ lockCups = 0
    /\ procs = NoProcs
    /\ files = NoFiles
    /\ naming = NoNaming

Serialized ==
    /\ starts = NoStarts
    /\ AtRest
    /\ handover = NoHandover

\* json.Marshal(currentCup): the exported fields of the cup and of its
\* teams, by name; the unexported ones (longestTeamName,
\* longestTeamDescription, Team.nameIndex) are not written.
ExportedCup == {"Status", "Moderated", "PickedPlayers", "Manager", "Players",
                "Teams", "ChannelID", "GuildID", "TeamSize"}
ExportedTeam == {"First", "Last", "Name"}

Marshal(currentCup) ==
    [f \in (DOMAIN currentCup) \cap ExportedCup |->
        IF f = "Teams"
        THEN [i \in 1..Len(currentCup.Teams) |->
                [g \in (DOMAIN currentCup.Teams[i]) \cap ExportedTeam |->
                    currentCup.Teams[i][g]]]
        ELSE currentCup[f]]

\* A file of the data directory: a directory, a file that cannot be read,
\* text that is no JSON object, or a JSON object.
Dir == [kind |-> "dir"]
Unreadable == [kind |-> "unreadable"]
Garbage == [kind |-> "garbage"]
Json(object) == [kind |-> "json", val |-> object]

\* Cup.save: ioutil.WriteFile(filepath.Join(ChannelDataDir,
\* currentCup.ChannelID), contents).  writeOk: the directory and the file
\* could be written.
save(fs, currentCup, writeOk) ==
    IF ~writeOk THEN fs
    ELSE (currentCup.ChannelID :> Json(Marshal(currentCup))) @@ fs

\* What the last handler did: the message branch it took (kind), the cup as
\* the handler found it (was), and, when the command was carried out, who
\* sent it (author) with which argument (token).  report is the cup the
\* completion message lists the teams of.
Log(kind, author, token, was, report) ==
    [kind |-> kind, author |-> author, token |-> token, was |-> was, report |-> report]

\* The handler sends a refusal and returns without touching the cup.
Rejected(currentCup, kind) ==
    /\ reply' = Log(kind, 0, NoToken, currentCup, NoCup)
    /\ UNCHANGED <<activeCups, order, closed, aside>>

\* handleClose refuses the keep count after the testing hack has filled
\* the roster: `cups` holds the cup as filled.
RejectedFilled(cups, currentCup, kind) ==
    /\ activeCups' = cups
    /\ reply' = Log(kind, 0, NoToken, currentCup, NoCup)
    /\ UNCHANGED <<order, closed, aside>>

\* The handler carried the command out and left `cups` as the registry.
Done(cups, currentCup, kind, author, token) ==
    /\ activeCups' = cups
    /\ reply' = Log(kind, author, token, currentCup, NoCup)
    /\ UNCHANGED aside

\* RemoveAt filling the hole with the last entry instead of shifting
RemoveAt_MoveLast(seq, which) ==
    IF which + 1 = Len(seq)
    THEN SubSeq(seq, 1, which)
    ELSE [i \in 1..(Len(seq) - 1) |-> IF i = which + 1 THEN seq[Len(seq)] ELSE seq[i]]

RemoveAt(seq, which) ==
    SubSeq(seq, 1, which) \o SubSeq(seq, which + 2, Len(seq))

----------------------------------------------------------------------------
(* Command handlers *)

\* handleStart signing the manager up as the first player
handleStart_ManagerSignsUp(channelID, author, sendOk) ==
    LET currentCup == getCup(channelID) IN
    IF currentCup # NoCup
    THEN Rejected(currentCup, "start: already started")
    ELSE LET added == addCup(activeCups, channelID)
             opened == [added EXCEPT ![channelID].Manager = makePlayer(author),
                                     ![channelID].Players = <<makePlayer(author)>>]
         IN  IF ~sendOk
             THEN /\ Done(deleteCup(opened, channelID), currentCup,
                          "start: send failed, cup aborted", author, NoToken)
                  /\ UNCHANGED order
                  /\ closed' = NoClose
             ELSE /\ Done(opened, currentCup,
                          "start: registration open", author, NoToken)
                  /\ order' = <<>>
                  /\ closed' = NoClose

handleStart(channelID, author, sendOk) ==
    LET currentCup == getCup(channelID) IN
    IF currentCup # NoCup
    THEN Rejected(currentCup, "start: already started")
    ELSE LET added == addCup(activeCups, channelID)
             opened == [added EXCEPT ![channelID].Manager = makePlayer(author)]
         IN  IF ~sendOk
             THEN /\ Done(deleteCup(opened, channelID), currentCup,
                          "start: send failed, cup aborted", author, NoToken)
                  /\ UNCHANGED order
                  /\ closed' = NoClose
             ELSE /\ Done(opened, currentCup,
                          "start: registration open", author, NoToken)
                  /\ order' = <<>>
                  /\ closed' = NoClose

handleAbort(channelID, author, hasAdminRole) ==
    LET currentCup == getCup(channelID) IN
    IF currentCup = NoCup
    THEN Rejected(currentCup, "abort: no cup")
    ELSE IF ~isSuperUser(currentCup, author, hasAdminRole)
    THEN Rejected(currentCup, "abort: not allowed")
    ELSE /\ Done(deleteCup(activeCups, channelID), currentCup,
                 "abort: cup aborted", author, NoToken)
         /\ UNCHANGED order
         /\ closed' = NoClose

\* handleAdd checking for an earlier sign-up only while sign-up is open
handleAdd_BypassInPickup(channelID, author) ==
    LET currentCup == getCup(channelID) IN
    IF currentCup = NoCup \/ currentCup.Status = CupStatusInactive
    THEN Rejected(currentCup, "add: no cup")
    ELSE IF currentCup.Status \in {CupStatusSignup, CupStatusPickup}
    THEN LET before == findPlayer(currentCup, author) IN
         IF before # -1 /\ ~allowDuplicates /\ currentCup.Status = CupStatusSignup
         THEN Rejected(currentCup, "add: already registered")
         ELSE /\ Done(store(channelID,
                          [currentCup EXCEPT !.Players = Append(@, makePlayer(author))]),
                      currentCup,
                      IF currentCup.Status # CupStatusSignup
                      THEN "add: joined as substitute"
                      ELSE "add: signed up",
                      author, NoToken)
              /\ UNCHANGED order
              /\ closed' = NoClose
    ELSE Rejected(currentCup, "add: no longer open")

handleAdd(channelID, author) ==
    LET currentCup == getCup(channelID) IN
    IF currentCup = NoCup \/ currentCup.Status = CupStatusInactive
    THEN Rejected(currentCup, "add: no cup")
    ELSE IF currentCup.Status \in {CupStatusSignup, CupStatusPickup}
    THEN LET before == findPlayer(currentCup, author) IN
         IF before # -1 /\ ~allowDuplicates
         THEN Rejected(currentCup, "add: already registered")
         ELSE /\ Done(store(channelID,
                          [currentCup EXCEPT !.Players = Append(@, makePlayer(author))]),
                      currentCup,
                      IF currentCup.Status # CupStatusSignup
                      THEN "add: joined as substitute"
                      ELSE "add: signed up",
                      author, NoToken)
              /\ UNCHANGED order
              /\ closed' = NoClose
    ELSE Rejected(currentCup, "add: no longer open")

\* history: what handover holds after the swap of a substitute into slot
\* which; only the first swap into a team's first slot is kept
Handover(currentCup, which) ==
    LET player == currentCup.Players[which + 1]
        sub == currentCup.Players[activePlayerCount(currentCup) + 1]
    IN  IF /\ handover.kept
           /\ handover.leaver = 0
           /\ player.Team >= 0
           /\ currentCup.Teams[player.Team + 1].First = which
        THEN [handover EXCEPT !.leaver = player.ID, !.newcomer = sub.ID,
                              !.team = player.Team]
        ELSE handover

\* removePlayer exchanging the two roster entries whole, Team and Next too
removePlayer_SwapRecords(channelID, author, token, currentCup, which) ==
    LET active == activePlayerCount(currentCup) IN
    IF currentCup.Status >= CupStatusPickup /\ which < active
    THEN IF active < Len(currentCup.Players)
         THEN LET player == currentCup.Players[which + 1]
                  sub == currentCup.Players[active + 1]
                  swapped == [currentCup EXCEPT
                      !.Players[which + 1] = sub,
                      !.Players[active + 1] = player]
              IN  /\ Done(store(channelID,
                              [swapped EXCEPT !.Players = RemoveAt(@, active)]),
                          currentCup,
                          "remove: left, substitute takes the place", author, token)
                  /\ UNCHANGED order
                  /\ closed' = NoClose
         ELSE Rejected(currentCup, "remove: no substitute available")
    ELSE /\ Done(store(channelID,
                     [currentCup EXCEPT !.Players = RemoveAt(@, which)]),
                 currentCup,
                 IF currentCup.Status >= CupStatusPickup
                 THEN "remove: substitute left"
                 ELSE "remove: withdrawn",
                 author, token)
         /\ UNCHANGED order
         /\ closed' = NoClose

\* removePlayer deleting the active slot when nobody can take it over
removePlayer_NoSubstituteNeeded(channelID, author, token, currentCup, which) ==
    LET active == activePlayerCount(currentCup) IN
    IF currentCup.Status >= CupStatusPickup /\ which < active
          /\ active < Len(currentCup.Players)
    THEN LET player == currentCup.Players[which + 1]
             sub == currentCup.Players[active + 1]
             swapped == [currentCup EXCEPT
                 !.Players[which + 1].ID = sub.ID,
                 !.Players[which + 1].Name = sub.Name,
                 !.Players[active + 1].ID = player.ID,
                 !.Players[active + 1].Name = player.Name]
         IN  /\ Done(store(channelID,
                         [swapped EXCEPT !.Players = RemoveAt(@, active)]),
                     currentCup,
                     "remove: left, substitute takes the place", author, token)
             /\ UNCHANGED order
             /\ closed' = NoClose
    ELSE /\ Done(store(channelID,
                     [currentCup EXCEPT !.Players = RemoveAt(@, which)]),
                 currentCup,
                 IF currentCup.Status >= CupStatusPickup
                 THEN "remove: substitute left"
                 ELSE "remove: withdrawn",
                 author, token)
         /\ UNCHANGED order
         /\ closed' = NoClose

\* The part of handleRemove after the player number `which` is known.
removePlayer(channelID, author, token, currentCup, which) ==
    LET active == activePlayerCount(currentCup) IN
    IF currentCup.Status >= CupStatusPickup /\ which < active
    THEN IF active < Len(currentCup.Players)
         THEN LET player == currentCup.Players[which + 1]
                  sub == currentCup.Players[active + 1]
                  swapped == [currentCup EXCEPT
                      !.Players[which + 1].ID = sub.ID,
                      !.Players[which + 1].Name = sub.Name,
                      !.Players[active + 1].ID = player.ID,
                      !.Players[active + 1].Name = player.Name]
              IN  /\ activeCups' = store(channelID,
                                      [swapped EXCEPT !.Players = RemoveAt(@, active)])
                  /\ reply' = Log("remove: left, substitute takes the place",
                                  author, token, currentCup, NoCup)
                  /\ handover' = Handover(currentCup, which)
                  /\ UNCHANGED <<order, starts, lockCups, procs, files, naming>>
                  /\ closed' = NoClose
         ELSE Rejected(currentCup, "remove: no substitute available")
    ELSE /\ Done(store(channelID,
                     [currentCup EXCEPT !.Players = RemoveAt(@, which)]),
                 currentCup,
                 IF currentCup.Status >= CupStatusPickup
                 THEN "remove: substitute left"
                 ELSE "remove: withdrawn",
                 author, token)
         /\ UNCHANGED order
         /\ closed' = NoClose

handleRemove(channelID, author, token) ==
    LET currentCup == getCup(channelID) IN
    IF currentCup = NoCup
    THEN Rejected(currentCup, "remove: no cup")
    ELSE IF currentCup.Status \notin {CupStatusSignup, CupStatusPickup}
    THEN Rejected(currentCup, "remove: not open")
    ELSE IF Len(currentCup.Players) = 0
    THEN Rejected(currentCup, "remove: no players")
    ELSE IF token.kind # "none"
    THEN IF ~isManager(currentCup, author)
         THEN Rejected(currentCup, "remove: only the manager removes others")
         ELSE IF token.kind # "num"
         THEN Rejected(currentCup, "remove: not a number")
         ELSE LET index == token.val - 1 IN
              IF index < 0 \/ index >= Len(currentCup.Players)
              THEN Rejected(currentCup, "remove: not a valid player number")
              ELSE removePlayer(channelID, author, token, currentCup, index)
    ELSE LET which == findPlayer(currentCup, author) IN
         IF which = -1
         THEN Rejected(currentCup, "remove: not registered")
         ELSE removePlayer(channelID, author, token, currentCup, which)

\* The testing hack of handleClose: with fillUpOnClose > 0 the roster is
\* topped up to that many entries with copies of its first player (the
\* manager when nobody signed up).
fillUp(currentCup) ==
    IF fillUpOnClose > 0
    THEN LET seeded == IF Len(currentCup.Players) = 0
                       THEN <<currentCup.Manager>>
                       ELSE currentCup.Players
         IN  [currentCup EXCEPT !.Players =
                 [i \in 1..(IF Len(seeded) < fillUpOnClose
                            THEN fillUpOnClose ELSE Len(seeded)) |->
                     IF i <= Len(seeded) THEN seeded[i] ELSE seeded[1]]]
    ELSE currentCup

\* closeSignup forming teams from everyone signed up, whatever is kept
closeSignup_IgnoreKeep(channelID, author, token, currentCup, signedUp) ==
    LET numTeams == Len(currentCup.Players) \div currentCup.TeamSize IN
    /\ Done(store(channelID,
                [currentCup EXCEPT
                    !.Status = CupStatusPickup,
                    !.PickedPlayers = 0,
                    !.Teams = [i \in 1..numTeams |-> TeamResetTeam]]),
            currentCup, "close: registration closed", author, token)
    /\ order' = <<>>
    /\ closed' = Closed(activeCups'[channelID], signedUp)

\* handleClose from the point where the number of players to keep is known.
closeSignup(channelID, author, token, currentCup, signedUp) ==
    LET numTeams == signedUp \div currentCup.TeamSize IN
    /\ Done(store(channelID,
                [currentCup EXCEPT
                    !.Status = CupStatusPickup,
                    !.PickedPlayers = 0,
                    !.Teams = [i \in 1..numTeams |-> TeamResetTeam]]),
            currentCup, "close: registration closed", author, token)
    /\ order' = <<>>
    /\ closed' = Closed(activeCups'[channelID], signedUp)

handleClose(channelID, author, token) ==
    LET currentCup == getCup(channelID) IN
    IF currentCup = NoCup
    THEN Rejected(currentCup, "close: no cup")
    ELSE IF ~isManager(currentCup, author)
    THEN Rejected(currentCup, "close: only the manager")
    ELSE IF currentCup.Status # CupStatusSignup
    THEN Rejected(currentCup, "close: already closed")
    ELSE LET filled == fillUp(currentCup)
             signedUp == Len(filled.Players)
             minPlayers == minPlayerCount(filled)
         IN  IF signedUp < minPlayers
             THEN /\ Done(deleteCup(activeCups, channelID), currentCup,
                          "close: too few signed up, cup aborted", author, token)
                  /\ UNCHANGED order
                  /\ closed' = NoClose
             ELSE IF token.kind = "none"
             THEN closeSignup(channelID, author, token, filled, signedUp)
             ELSE IF token.kind # "num"
             THEN RejectedFilled(store(channelID, filled), currentCup, "close: not a number")
             ELSE IF token.val > signedUp
             THEN RejectedFilled(store(channelID, filled), currentCup, "close: that many have not signed up")
             ELSE IF token.val < minPlayers
             THEN RejectedFilled(store(channelID, filled), currentCup, "close: keep at least the minimum")
             ELSE closeSignup(channelID, author, token, filled, token.val)

\* pickPlayer filling the last slot only once every slot but none is left
pickPlayer_FillWhenFull(channelID, author, token, currentCup, pickup, numActive, index) ==
    LET picked == addPlayerToTeam(currentCup, index, pickup.Team) IN
    IF picked.PickedPlayers = numActive
    THEN LET lastPlayer == nextAvailablePlayer(picked)
             lastSlot == currentPickup(picked)
             final == addPlayerToTeam(picked, lastPlayer, lastSlot.Team)
         IN  /\ activeCups' = deleteCup(store(channelID, final), channelID)
             /\ reply' = Log("pick: teams complete", author, token, currentCup, final)
             /\ UNCHANGED aside
             /\ order' = IF final # picked
                         THEN order \o <<final.Players[index + 1].Team,
                                         final.Players[lastPlayer + 1].Team>>
                         ELSE Append(order, final.Players[index + 1].Team)
             /\ closed' = NoClose
    ELSE /\ Done(store(channelID, picked), currentCup,
                 "pick: joined team", author, token)
         /\ order' = Append(order, picked.Players[index + 1].Team)
         /\ closed' = [closed EXCEPT !.before = NoCup]

\* pickPlayer giving the last player the slot of the pick before it
pickPlayer_StaleSlot(channelID, author, token, currentCup, pickup, numActive, index) ==
    LET picked == addPlayerToTeam(currentCup, index, pickup.Team) IN
    IF picked.PickedPlayers = numActive - 1
    THEN LET lastPlayer == nextAvailablePlayer(picked)
             lastSlot == pickup
             final == addPlayerToTeam(picked, lastPlayer, lastSlot.Team)
         IN  /\ activeCups' = deleteCup(store(channelID, final), channelID)
             /\ reply' = Log("pick: teams complete", author, token, currentCup, final)
             /\ UNCHANGED aside
             /\ order' = IF final # picked
                         THEN order \o <<final.Players[index + 1].Team,
                                         final.Players[lastPlayer + 1].Team>>
                         ELSE Append(order, final.Players[index + 1].Team)
             /\ closed' = NoClose
    ELSE /\ Done(store(channelID, picked), currentCup,
                 "pick: joined team", author, token)
         /\ order' = Append(order, picked.Players[index + 1].Team)
         /\ closed' = [closed EXCEPT !.before = NoCup]

\* handlePick once the turn and the target have been accepted.
pickPlayer(channelID, author, token, currentCup, pickup, numActive, index) ==
    LET picked == addPlayerToTeam(currentCup, index, pickup.Team) IN
    IF picked.PickedPlayers = numActive - 1
    THEN LET lastPlayer == nextAvailablePlayer(picked)
             lastSlot == currentPickup(picked)
             final == addPlayerToTeam(picked, lastPlayer, lastSlot.Team)
         IN  /\ activeCups' = deleteCup(store(channelID, final), channelID)
             /\ reply' = Log("pick: teams complete", author, token, currentCup, final)
             /\ UNCHANGED aside
             /\ order' = IF final # picked
                         THEN order \o <<final.Players[index + 1].Team,
                                         final.Players[lastPlayer + 1].Team>>
                         ELSE Append(order, final.Players[index + 1].Team)
             /\ closed' = NoClose
    ELSE /\ Done(store(channelID, picked), currentCup,
                 "pick: joined team", author, token)
         /\ order' = Append(order, picked.Players[index + 1].Team)
         /\ closed' = [closed EXCEPT !.before = NoCup]

\* handlePick without the check that the player picked holds an active slot
handlePick_PickSubstitute(channelID, author, token) ==
    LET currentCup == getCup(channelID) IN
    IF currentCup = NoCup
    THEN Rejected(currentCup, "pick: no cup")
    ELSE IF currentCup.Status = CupStatusSignup
    THEN Rejected(currentCup, "pick: not picking yet")
    ELSE IF currentCup.Status # CupStatusPickup
    THEN Rejected(currentCup, "pick: not picking at this point")
    ELSE LET pickup == currentPickup(currentCup)
             who == whoPicks(currentCup, pickup)
             numActive == activePlayerCount(currentCup)
         IN  IF who = NoPlayer
             THEN Rejected(currentCup, "pick: not your turn")
             ELSE IF who.ID # author
             THEN Rejected(currentCup, "pick: not your turn, but another's")
             ELSE IF token.kind = "none"
             THEN Rejected(currentCup, "pick: need a player number")
             ELSE IF token.kind # "num"
             THEN Rejected(currentCup, "pick: not a number")
             ELSE LET index == token.val - 1 IN
                  IF index < 0 \/ index >= Len(currentCup.Players)
                  THEN Rejected(currentCup, "pick: not a valid player number")
                  ELSE IF currentCup.Players[index + 1].Team # -1
                  THEN Rejected(currentCup, "pick: already on a team")
                  ELSE pickPlayer(channelID, author, token, currentCup, pickup, numActive, index)

handlePick(channelID, author, token) ==
    LET currentCup == getCup(channelID) IN
    IF currentCup = NoCup
    THEN Rejected(currentCup, "pick: no cup")
    ELSE IF currentCup.Status = CupStatusSignup
    THEN Rejected(currentCup, "pick: not picking yet")
    ELSE IF currentCup.Status # CupStatusPickup
    THEN Rejected(currentCup, "pick: not picking at this point")
    ELSE LET pickup == currentPickup(currentCup)
             who == whoPicks(currentCup, pickup)
             numActive == activePlayerCount(currentCup)
         IN  IF who = NoPlayer
             THEN Rejected(currentCup, "pick: not your turn")
             ELSE IF who.ID # author
             THEN Rejected(currentCup, "pick: not your turn, but another's")
             ELSE IF token.kind = "none"
             THEN Rejected(currentCup, "pick: need a player number")
             ELSE IF token.kind # "num"
             THEN Rejected(currentCup, "pick: not a number")
             ELSE LET index == token.val - 1 IN
                  IF index < 0 \/ index >= Len(currentCup.Players)
                  THEN Rejected(currentCup, "pick: not a valid player number")
                  ELSE IF index >= numActive /\ index < Len(currentCup.Players)
                  THEN Rejected(currentCup, "pick: only a substitute")
                  ELSE IF currentCup.Players[index + 1].Team # -1
                  THEN Rejected(currentCup, "pick: already on a team")
                  ELSE pickPlayer(channelID, author, token, currentCup, pickup, numActive, index)

\* handleReopen discarding the teams without resetting the players
handleReopen_KeepAssignments(channelID, author) ==
    LET currentCup == getCup(channelID) IN
    IF currentCup = NoCup \/ currentCup.Status = CupStatusInactive
    THEN Rejected(currentCup, "reopen: no cup")
    ELSE IF currentCup.Status # CupStatusPickup
    THEN Rejected(currentCup, "reopen: picking has not begun")
    ELSE IF ~isManager(currentCup, author)
    THEN Rejected(currentCup, "reopen: only the manager")
    ELSE /\ Done(store(channelID,
                     [currentCup EXCEPT
                         !.Teams = <<>>,
                         !.Status = CupStatusSignup,
                         !.PickedPlayers = 0]),
                 currentCup, "reopen: teams discarded, cup reopened", author, NoToken)
         /\ order' = <<>>
         /\ UNCHANGED closed

handleReopen(channelID, author) ==
    LET currentCup == getCup(channelID) IN
    IF currentCup = NoCup \/ currentCup.Status = CupStatusInactive
    THEN Rejected(currentCup, "reopen: no cup")
    ELSE IF currentCup.Status # CupStatusPickup
    THEN Rejected(currentCup, "reopen: picking has not begun")
    ELSE IF ~isManager(currentCup, author)
    THEN Rejected(currentCup, "reopen: only the manager")
    ELSE /\ Done(store(channelID,
                     [currentCup EXCEPT
                         !.Teams = <<>>,
                         !.Players = [i \in 1..Len(@) |-> PlayerResetTeam(@[i])],
                         !.Status = CupStatusSignup,
                         !.PickedPlayers = 0]),
                 currentCup, "reopen: teams discarded, cup reopened", author, NoToken)
         /\ order' = <<>>
         /\ UNCHANGED closed

handleTeamSize_AnyPhase(channelID, author, token) ==
    LET currentCup == getCup(channelID) IN
    IF currentCup = NoCup \/ currentCup.Status = CupStatusInactive
    THEN Rejected(currentCup, "teamsize: no cup")
    ELSE IF token.kind = "none"
    THEN Rejected(currentCup, "teamsize: team size is")
    ELSE IF ~isManager(currentCup, author)
    THEN Rejected(currentCup, "teamsize: only the manager")
    ELSE IF token.kind # "num"
    THEN Rejected(currentCup, "teamsize: not a number")
    ELSE IF token.val <= 0
    THEN Rejected(currentCup, "teamsize: not a valid team size")
    ELSE IF token.val = currentCup.TeamSize
    THEN Rejected(currentCup, "teamsize: already that size")
    ELSE /\ Done(store(channelID, [currentCup EXCEPT !.TeamSize = token.val]),
                 currentCup, "teamsize: changed", author, token)
         /\ UNCHANGED order
         /\ closed' = NoClose

handleTeamSize_AcceptZero(channelID, author, token) ==
    LET currentCup == getCup(channelID) IN
    IF currentCup = NoCup \/ currentCup.Status = CupStatusInactive
    THEN Rejected(currentCup, "teamsize: no cup")
    ELSE IF token.kind = "none"
    THEN Rejected(currentCup, "teamsize: team size is")
    ELSE IF ~isManager(currentCup, author)
    THEN Rejected(currentCup, "teamsize: only the manager")
    ELSE IF currentCup.Status # CupStatusSignup
    THEN Rejected(currentCup, "teamsize: only during sign-up")
    ELSE IF token.kind # "num"
    THEN Rejected(currentCup, "teamsize: not a number")
    ELSE IF token.val < 0
    THEN Rejected(currentCup, "teamsize: not a valid team size")
    ELSE IF token.val = currentCup.TeamSize
    THEN Rejected(currentCup, "teamsize: already that size")
    ELSE /\ Done(store(channelID, [currentCup EXCEPT !.TeamSize = token.val]),
                 currentCup, "teamsize: changed", author, token)
         /\ UNCHANGED order
         /\ closed' = NoClose

handleTeamSize(channelID, author, token) ==
    LET currentCup == getCup(channelID) IN
    IF currentCup = NoCup \/ currentCup.Status = CupStatusInactive
    THEN Rejected(currentCup, "teamsize: no cup")
    ELSE IF token.kind = "none"
    THEN Rejected(currentCup, "teamsize: team size is")
    ELSE IF ~isManager(currentCup, author)
    THEN Rejected(currentCup, "teamsize: only the manager")
    ELSE IF currentCup.Status # CupStatusSignup
    THEN Rejected(currentCup, "teamsize: only during sign-up")
    ELSE IF token.kind # "num"
    THEN Rejected(currentCup, "teamsize: not a number")
    ELSE IF token.val <= 0
    THEN Rejected(currentCup, "teamsize: not a valid team size")
    ELSE IF token.val = currentCup.TeamSize
    THEN Rejected(currentCup, "teamsize: already that size")
    ELSE /\ Done(store(channelID, [currentCup EXCEPT !.TeamSize = token.val]),
                 currentCup, "teamsize: changed", author, token)
         /\ UNCHANGED order
         /\ closed' = NoClose

\* strings.ToLower on the words a moderate request is sent with
ToLower(w) ==
    CASE w = "ON" -> "on"
      [] w = "Off" -> "off"
      [] OTHER -> w

\* handlePromote opening registration again for a cup in Pickup
handlePromote_OpensRegistration(channelID, author, tooSoon) ==
    LET currentCup == getCup(channelID) IN
    IF currentCup = NoCup \/ currentCup.Status = CupStatusInactive
    THEN Rejected(currentCup, "promote: no cup")
    ELSE IF tooSoon
    THEN Rejected(currentCup, "promote: too soon")
    ELSE /\ Done(store(channelID, [currentCup EXCEPT !.Status = CupStatusSignup]),
                 currentCup, "promote: promoted", author, NoToken)
         /\ UNCHANGED order
         /\ closed' = NoClose

\* handlePromote.  tooSoon: the time the cup may be promoted again by this
\* user (NextPromoteTimeManager for a super-user, NextPromoteTime for the
\* others) lies after time.Now().  The two times are not part of the cup
\* here; an accepted promotion writes nothing else.
handlePromote(channelID, author, tooSoon) ==
    LET currentCup == getCup(channelID) IN
    IF currentCup = NoCup \/ currentCup.Status = CupStatusInactive
    THEN Rejected(currentCup, "promote: no cup")
    ELSE IF currentCup.Status # CupStatusSignup
    THEN Rejected(currentCup, "promote: only when registration is open")
    ELSE IF tooSoon
    THEN Rejected(currentCup, "promote: too soon")
    ELSE /\ Done(activeCups, currentCup, "promote: promoted", author, NoToken)
         /\ UNCHANGED order
         /\ closed' = NoClose

handleModerate(channelID, author, hasAdminRole, token) ==
    LET currentCup == getCup(channelID) IN
    IF currentCup = NoCup \/ currentCup.Status = CupStatusInactive
    THEN Rejected(currentCup, "moderate: no cup")
    ELSE IF ~isSuperUser(currentCup, author, hasAdminRole)
    THEN Rejected(currentCup, "moderate: not allowed")
    ELSE IF token.kind # "none" /\ ToLower(token.val) \notin {"on", "off"}
    THEN Rejected(currentCup, "moderate: not a valid option")
    ELSE LET moderation == IF token.kind = "none" THEN ~currentCup.Moderated
                           ELSE ToLower(token.val) = "on"
         IN
         IF moderation = currentCup.Moderated
         THEN Rejected(currentCup,
                       IF currentCup.Moderated THEN "moderate: already moderated"
                       ELSE "moderate: already unmoderated")
         ELSE /\ Done(store(channelID, [currentCup EXCEPT !.Moderated = moderation]),
                      currentCup,
                      IF moderation THEN "moderate: now moderated"
                      ELSE "moderate: no longer moderated",
                      author, token)
              /\ UNCHANGED order
              /\ closed' = NoClose

\* handleWho: the report of the cup, and the cup's file when the saveOnWho
\* flag is set
handleWho(channelID, author, writeOk) ==
    LET currentCup == getCup(channelID) IN
    IF currentCup = NoCup \/ currentCup.Status = CupStatusInactive
    THEN Rejected(currentCup, "who: no cup")
    ELSE /\ reply' = Log("who: report", 0, NoToken, currentCup, NoCup)
         /\ files' = IF saveOnWho THEN save(files, currentCup, writeOk) ELSE files
         /\ UNCHANGED <<activeCups, order, closed, handover, starts, lockCups, procs, naming>>

----------------------------------------------------------------------------
(* Spec: one channel, the handlers run one at a time, any user sends any   *)
(* command with any argument.                                              *)

\* The user who opens cups (user IDs are interchangeable)
Starters == {1}

NumberTokens == {Num(n) : n \in 0..(MaxUsers + 1)}
PlayerTokens == {NoToken, BadToken} \cup NumberTokens
SizeTokens == {NoToken, BadToken} \cup {Num(n) : n \in 0..MaxTeamSize}
                 \cup {Num(DefaultTeamSize)}

Init ==
    /\ activeCups = [c \in Channels |-> NoCup]
    /\ reply = Log("", 0, NoToken, NoCup, NoCup)
    /\ order = <<>>
    /\ closed = NoClose
    /\ Serialized

Next ==
    \/ \E c \in Channels, u \in Starters, sendOk \in BOOLEAN :
           handleStart(c, u, sendOk)
    \/ \E c \in Channels, u \in Users, hasAdminRole \in BOOLEAN :
           handleAbort(c, u, hasAdminRole)
    \/ \E c \in Channels, u \in Users : handleAdd(c, u)
    \/ \E c \in Channels, u \in Users, t \in PlayerTokens : handleRemove(c, u, t)
    \/ \E c \in Channels, u \in Users, t \in PlayerTokens : handleClose(c, u, t)
    \/ \E c \in Channels, u \in Users, t \in PlayerTokens : handlePick(c, u, t)
    \/ \E c \in Channels, u \in Users : handleReopen(c, u)
    \/ \E c \in Channels, u \in Users, t \in SizeTokens : handleTeamSize(c, u, t)

Spec == Init /\ [][Next]_vars

----------------------------------------------------------------------------
(* SpecDraft starts from the cup as a close leaves it: the manager (user 1) *)
(* opened it, set the team size, users 1..n signed up in that order and    *)
(* the manager closed sign-up keeping numTeams full teams.                 *)

closedCup(channelID, teamSize, numTeams, signedUp) ==
    [newCup(channelID) EXCEPT
        !.Manager = makePlayer(1),
        !.TeamSize = teamSize,
        !.Players = [i \in 1..signedUp |-> makePlayer(i)],
        !.Status = CupStatusPickup,
        !.Teams = [i \in 1..numTeams |-> TeamResetTeam]]

InitClosed(teamSize, numTeams, signedUp) ==
    /\ activeCups = [c \in Channels |-> closedCup(c, teamSize, numTeams, signedUp)]
    /\ reply = Log("close: registration closed", 1, Num(numTeams * teamSize),
                   [closedCup("c1", teamSize, numTeams, signedUp) EXCEPT
                       !.Status = CupStatusSignup, !.Teams = <<>>],
                   NoCup)
    /\ order = <<>>
    /\ closed = [cup |-> closedCup("c1", teamSize, numTeams, signedUp),
                 kept |-> numTeams * teamSize, before |-> NoCup]
    /\ Serialized

(* SpecDraft: drafts of every shape up to MaxOrderTeams teams of           *)
(* MaxOrderTeamSize players.  In each of them the user whose turn it is    *)
(* can pick the first player still available (OrderPick), which runs the   *)
(* draft from close to completion; in drafts of at most MaxDraftActive     *)
(* active slots every user also sends any pick request, in drafts of at    *)
(* most MaxSwapActive active slots any remove request, and in drafts of at *)
(* most MaxReopenActive active slots any reopen request.                   *)

DraftUsers == 1..(MaxDraftActive + MaxDraftSubs)
DraftTokens == {NoToken} \cup {Num(n) : n \in 0..(MaxDraftActive + MaxDraftSubs + 1)}

InitDraft ==
    \E teamSize \in 1..MaxOrderTeamSize, numTeams \in MinimumTeams..MaxOrderTeams,
       subs \in 0..MaxDraftSubs :
        InitClosed(teamSize, numTeams, teamSize * numTeams + subs)

SmallDraft(c, maxActive) ==
    /\ getCup(c) # NoCup
    /\ activePlayerCount(getCup(c)) <= maxActive

DraftPick ==
    \E c \in Channels, u \in DraftUsers, t \in DraftTokens :
        SmallDraft(c, MaxDraftActive) /\ handlePick(c, u, t)

DraftRemove ==
    \E c \in Channels, u \in DraftUsers, t \in DraftTokens :
        SmallDraft(c, MaxSwapActive) /\ handleRemove(c, u, t)

OrderPick ==
    \E c \in Channels :
        /\ getCup(c) # NoCup
        /\ LET currentCup == getCup(c)
               who == whoPicks(currentCup, currentPickup(currentCup))
           IN  handlePick(c, who.ID, Num(nextAvailablePlayer(currentCup) + 1))

DraftReopen ==
    \E c \in Channels, u \in DraftUsers :
        SmallDraft(c, MaxReopenActive) /\ handleReopen(c, u)

NextDraft ==
    \/ DraftPick
    \/ DraftRemove
    \/ OrderPick
    \/ DraftReopen

SpecDraft == InitDraft /\ [][NextDraft]_vars

(* SpecPass: the drafts of SpecDraft with late sign-ups: in drafts of at    *)
(* most MaxSwapActive active slots a user who had not signed up by the     *)
(* close also sends add requests while picking is under way and the roster *)
(* holds fewer than MaxPassSubs substitutes.                               *)

LateUsers == {MaxSwapActive + MaxDraftSubs + 1}

PassAdd ==
    \E c \in Channels, u \in LateUsers :
        /\ SmallDraft(c, MaxSwapActive)
        /\ getCup(c).Status = CupStatusPickup
        /\ Len(getCup(c).Players) < activePlayerCount(getCup(c)) + MaxPassSubs
        /\ handleAdd(c, u)

NextPass ==
    \/ DraftPick
    \/ DraftRemove
    \/ OrderPick
    \/ DraftReopen
    \/ PassAdd

SpecPass == InitDraft /\ [][NextPass]_vars

----------------------------------------------------------------------------
(* SpecRoster starts from the cup in Signup after users 1..n signed up in   *)
(* that order; the manager is user 1 (a player too, when n > 0) or a user   *)
(* who did not sign up.  Any user then sends any remove, close, pick or     *)
(* reopen request, so that rosters with several substitutes are closed,     *)
(* drafted from, reopened and closed again.                                 *)

signupCup(channelID, manager, teamSize, signedUp) ==
    [newCup(channelID) EXCEPT
        !.Manager = makePlayer(manager),
        !.TeamSize = teamSize,
        !.Players = [i \in 1..signedUp |-> makePlayer(i)]]

RosterUsers == 1..(MaxRoster + 1)
RosterTokens == {NoToken} \cup {Num(n) : n \in 0..(MaxRoster + 1)}

InitRoster ==
    \E manager \in {1, MaxRoster + 1}, teamSize \in 1..MaxRosterTeamSize,
       signedUp \in 0..MaxRoster :
        /\ activeCups = [c \in Channels |-> signupCup(c, manager, teamSize, signedUp)]
        /\ reply = Log("start: registration open", manager, NoToken, NoCup, NoCup)
        /\ order = <<>>
        /\ closed = NoClose
        /\ Serialized

RosterRemove ==
    \E c \in Channels, u \in RosterUsers, t \in RosterTokens : handleRemove(c, u, t)
RosterClose ==
    \E c \in Channels, u \in RosterUsers, t \in RosterTokens : handleClose(c, u, t)
RosterPick ==
    \E c \in Channels, u \in RosterUsers, t \in RosterTokens : handlePick(c, u, t)
RosterReopen ==
    \E c \in Channels, u \in RosterUsers : handleReopen(c, u)

NextRoster ==
    \/ RosterRemove
    \/ RosterClose
    \/ RosterPick
    \/ RosterReopen

SpecRoster == InitRoster /\ [][NextRoster]_vars

----------------------------------------------------------------------------
(* SpecRace: MaxStarts start requests for one channel, from users          *)
(* 1..MaxStarts, each handled in a goroutine of its own, the steps of the  *)
(* handlers interleaved in every way.  A step is what handleStart does     *)
(* between two points where another goroutine can run: getCup and addCup   *)
(* each hold lockCups for their one map operation, nothing holds it from   *)
(* the one to the other.  starts.at[p] is where the handler of user p's    *)
(* request stands, starts.registered the request whose cup the channel     *)
(* maps to (0: none).                                                      *)

Starts == 1..MaxStarts

InitRace ==
    /\ activeCups = [c \in Channels |-> NoCup]
    /\ reply = Log("", 0, NoToken, NoCup, NoCup)
    /\ order = <<>>
    /\ closed = NoClose
    /\ starts = [at |-> [p \in Starts |-> "getCup"], registered |-> 0]
    /\ AtRest
    /\ handover = NoHandover

\* part_000:16-28: currentCup := getCup(m.ChannelID), and the refusal
StartGetCup(p, channelID) ==
    /\ starts.at[p] = "getCup"
    /\ LET currentCup == getCup(channelID) IN
       IF currentCup # NoCup
       THEN /\ starts' = [starts EXCEPT !.at[p] = "already started"]
            /\ reply' = Log("start: already started", p, NoToken, currentCup, NoCup)
       ELSE /\ starts' = [starts EXCEPT !.at[p] = "addCup"]
            /\ UNCHANGED reply
    /\ UNCHANGED <<activeCups, order, closed, rest>>

\* part_000:30: currentCup = addCup(m.ChannelID)
StartAddCup(p, channelID) ==
    /\ starts.at[p] = "addCup"
    /\ activeCups' = addCup(activeCups, channelID)
    /\ starts' = [starts EXCEPT !.at[p] = "Manager", !.registered = p]
    /\ UNCHANGED <<reply, order, closed, rest>>

\* part_000:31: currentCup.Manager = makePlayer(m.Author), a write to the
\* cup this handler created, which the channel may no longer map to
StartManager(p, channelID) ==
    /\ starts.at[p] = "Manager"
    /\ activeCups' = IF starts.registered = p
                     THEN [activeCups EXCEPT ![channelID].Manager = makePlayer(p)]
                     ELSE activeCups
    /\ starts' = [starts EXCEPT !.at[p] = "send"]
    /\ UNCHANGED <<reply, order, closed, rest>>

\* part_000:52-60: the announcement, and deleteCup(currentCup.ChannelID)
\* when it cannot be sent
StartSend(p, channelID, sendOk) ==
    /\ starts.at[p] = "send"
    /\ IF sendOk
       THEN /\ starts' = [starts EXCEPT !.at[p] = "registration open"]
            /\ reply' = Log("start: registration open", p, NoToken, NoCup, NoCup)
            /\ UNCHANGED activeCups
       ELSE /\ starts' = [starts EXCEPT !.at[p] = "send failed", !.registered = 0]
            /\ reply' = Log("start: send failed, cup aborted", p, NoToken, NoCup, NoCup)
            /\ activeCups' = deleteCup(activeCups, channelID)
    /\ UNCHANGED <<order, closed, rest>>

RaceGetCup == \E p \in Starts, c \in Channels : StartGetCup(p, c)
RaceAddCup == \E p \in Starts, c \in Channels : StartAddCup(p, c)
RaceManager == \E p \in Starts, c \in Channels : StartManager(p, c)
RaceSend == \E p \in Starts, c \in Channels, sendOk \in BOOLEAN : StartSend(p, c, sendOk)

NextRace ==
    \/ RaceGetCup
    \/ RaceAddCup
    \/ RaceManager
    \/ RaceSend

SpecRace == InitRace /\ [][NextRace]_vars

----------------------------------------------------------------------------
(* SpecAll: every command of the draft group, sent by users 1..MaxAllUsers  *)
(* with any argument, the handlers run one at a time.                      *)

AllUsers == 1..MaxAllUsers
AllTokens == {NoToken, BadToken} \cup {Num(n) : n \in 0..(MaxAllUsers + 1)}
NextAll ==
    \/ \E c \in Channels, u \in Starters, sendOk \in BOOLEAN :
           handleStart(c, u, sendOk)
    \/ \E c \in Channels, u \in AllUsers, hasAdminRole \in BOOLEAN :
           handleAbort(c, u, hasAdminRole)
    \/ \E c \in Channels, u \in AllUsers : handleAdd(c, u)
    \/ \E c \in Channels, u \in AllUsers, t \in AllTokens : handleRemove(c, u, t)
    \/ \E c \in Channels, u \in AllUsers, t \in AllTokens : handleClose(c, u, t)
    \/ \E c \in Channels, u \in AllUsers, t \in AllTokens : handlePick(c, u, t)
    \/ \E c \in Channels, u \in AllUsers : handleReopen(c, u)
    \/ \E c \in Channels, u \in AllUsers,
          t \in {NoToken} \cup {Num(n) : n \in 1..MaxTeamSize} :
           handleTeamSize(c, u, t)
    \/ \E c \in Channels, u \in AllUsers, tooSoon \in BOOLEAN :
           handlePromote(c, u, tooSoon)
    \/ \E c \in Channels, u \in AllUsers, hasAdminRole \in BOOLEAN,
          t \in {NoToken, Word("on"), Word("ON"), Word("Off"), Word("maybe")} :
           handleModerate(c, u, hasAdminRole, t)
    \/ \E c \in Channels, u \in AllUsers, writeOk \in BOOLEAN : handleWho(c, u, writeOk)

SpecAll == Init /\ [][NextAll]_vars

----------------------------------------------------------------------------
(* SpecNames: chooseTeamNames on the teams of a cup that was just closed,   *)
(* with a random source that returns any index at every draw.  Attributes  *)
(* and Nouns are the first MaxAttributes and MaxNouns entries of the       *)
(* source's tables.  naming holds the teams, the loop variables i and      *)
(* retry, and the number of draws made for every team.                     *)

Attributes == SubSeq(<<"Black", "Grey", "Purple", "Brown">>, 1, MaxAttributes)
Nouns == SubSeq(<<"Alligators", "Crocs", "Armadillos", "Beavers">>, 1, MaxNouns)
TeamNameCombos == Len(Attributes) * Len(Nouns)

decomposeName(index) ==
    [attribute |-> index % Len(Attributes), noun |-> index \div Len(Attributes)]

\* Team.resetTeam with the name fields
resetTeam == [First |-> -1, Last |-> -1, Name |-> "", nameIndex |-> -1]

RECURSIVE digits10(_)
digits10(number) == IF number >= 10 THEN 1 + digits10(number \div 10) ELSE 1

RECURSIVE longestFrom(_, _, _)
longestFrom(teams, i, extra) ==
    IF i >= Len(teams) THEN 0
    ELSE LET length == Len(teams[i + 1].Name) + (IF extra THEN digits10(i) + 2 ELSE 0)
             others == longestFrom(teams, i + 1, extra)
         IN  IF length > others THEN length ELSE others

updateTeamNameCache(currentCup) ==
    [currentCup EXCEPT
        !.longestTeamName = longestFrom(currentCup.Teams, 0, FALSE),
        !.longestTeamDescription = longestFrom(currentCup.Teams, 0, TRUE)]

\* found looking at the attributes only
found_AttributeOnly(teams, i, index) ==
    \E j \in 0..(i - 1) :
        decomposeName(index).attribute = decomposeName(teams[j + 1].nameIndex).attribute

\* The name of team i collides with the name of a team before it
found(teams, i, index) ==
    \E j \in 0..(i - 1) :
        \/ decomposeName(index).attribute = decomposeName(teams[j + 1].nameIndex).attribute
        \/ decomposeName(index).noun = decomposeName(teams[j + 1].nameIndex).noun

InitNames ==
    /\ activeCups = [c \in Channels |-> NoCup]
    /\ reply = Log("", 0, NoToken, NoCup, NoCup)
    /\ order = <<>>
    /\ closed = NoClose
    /\ starts = NoStarts
    /\ lockCups = 0
    /\ procs = NoProcs
    /\ files = NoFiles
    /\ handover = NoHandover
    /\ \E numTeams \in MinimumTeams..MaxNameTeams :
        naming = [cup |-> [Teams |-> [k \in 1..numTeams |-> resetTeam],
                           longestTeamName |-> 0,
                           longestTeamDescription |-> 0],
                  i |-> 0,
                  retry |-> 0,
                  draws |-> [k \in 1..numTeams |-> 0],
                  done |-> FALSE]

\* chooseTeamNames from one call of rand.Intn(TeamNameCombos), which returns
\* index, to the next: the collision check of the draw and, when the retry
\* loop ends with it, the name of team i; after the last team,
\* updateTeamNameCache and the return.
chooseTeamNames(index) ==
    /\ ~naming.done
    /\ naming.i < Len(naming.cup.Teams)
    /\ naming.retry < MaxRetries
    /\ LET i == naming.i
           drawn == [naming.cup EXCEPT !.Teams[i + 1].nameIndex = index]
           name == Attributes[decomposeName(index).attribute + 1] \o " "
                       \o Nouns[decomposeName(index).noun + 1]
           named == [drawn EXCEPT !.Teams[i + 1].Name = name]
       IN
       IF found(drawn.Teams, i, index) /\ naming.retry + 1 < MaxRetries
       THEN naming' = [naming EXCEPT !.cup = drawn,
                                     !.retry = @ + 1,
                                     !.draws[i + 1] = @ + 1]
       ELSE naming' = [naming EXCEPT
                          !.cup = IF i + 1 < Len(naming.cup.Teams) THEN named
                                  ELSE updateTeamNameCache(named),
                          !.i = i + 1,
                          !.retry = 0,
                          !.draws[i + 1] = @ + 1,
                          !.done = ~(i + 1 < Len(naming.cup.Teams))]
    /\ UNCHANGED <<activeCups, reply, order, closed, handover, starts, lockCups, procs, files>>

NextNames ==
    \/ \E index \in 0..(TeamNameCombos - 1) : chooseTeamNames(index)

SpecNames == InitNames /\ [][NextNames]_vars

\* The function runs on: it is sequential code with no wait in it
SpecNamesLive == SpecNames /\ WF_vars(NextNames)

----------------------------------------------------------------------------
(* Persistence: resumeState at process start, suspendState at its end.     *)

\* new(Cup) and the zero values of its parts
ZeroPlayer == [Name |-> <<>>, ID |-> 0, Team |-> 0, Next |-> 0]
ZeroTeam == [First |-> 0, Last |-> 0, Name |-> "", nameIndex |-> 0]
ZeroCup ==
    [Status |-> 0,
     Moderated |-> FALSE,
     PickedPlayers |-> 0,
     Manager |-> ZeroPlayer,
     Players |-> <<>>,
     Teams |-> <<>>,
     ChannelID |-> "",
     GuildID |-> "",
     TeamSize |-> 0,
     longestTeamName |-> 0,
     longestTeamDescription |-> 0]

\* json.Unmarshal(contents, currentCup) of a JSON object: the exported
\* fields the object names are set, every other field keeps its zero value.
UnmarshalTeam(object) ==
    [g \in DOMAIN ZeroTeam |->
        IF g \in (DOMAIN object) \cap ExportedTeam THEN object[g] ELSE ZeroTeam[g]]

\* Unmarshal that does not read the moderation flag
Unmarshal_NoModerated(object) ==
    [f \in DOMAIN ZeroCup |->
        IF f \in (DOMAIN object) \cap (ExportedCup \ {"Moderated"})
        THEN IF f = "Teams"
             THEN [i \in 1..Len(object.Teams) |-> UnmarshalTeam(object.Teams[i])]
             ELSE object[f]
        ELSE ZeroCup[f]]

Unmarshal(object) ==
    [f \in DOMAIN ZeroCup |->
        IF f \in (DOMAIN object) \cap ExportedCup
        THEN IF f = "Teams"
             THEN [i \in 1..Len(object.Teams) |-> UnmarshalTeam(object.Teams[i])]
             ELSE object[f]
        ELSE ZeroCup[f]]

\* os.Remove(path)
removeFile(fs, name) == [n \in (DOMAIN fs) \ {name} |-> fs[n]]

\* resumeFile removing every file it has looked at
resumeFile_RemoveAlways(state, name, removeOk) ==
    LET contents == state.fs[name] IN
    IF contents.kind # "json"
    THEN [state EXCEPT !.fs = removeFile(state.fs, name)]
    ELSE LET currentCup == Unmarshal(contents.val) IN
         IF currentCup.ChannelID # name
         THEN [state EXCEPT !.fs = removeFile(state.fs, name)]
         ELSE LET sized == IF currentCup.TeamSize = 0
                           THEN [currentCup EXCEPT !.TeamSize = DefaultTeamSize]
                           ELSE currentCup
              IN  [cups |-> [state.cups EXCEPT ![name] = updateTeamNameCache(sized)],
                   fs |-> removeFile(state.fs, name)]

\* resumeState, the body of its loop for the file `name`: registry and
\* directory before (state) and after.  removeOk: os.Remove succeeds.
resumeFile(state, name, removeOk) ==
    LET contents == state.fs[name] IN
    IF contents.kind = "dir" THEN state
    ELSE IF contents.kind = "unreadable" THEN state
    ELSE IF contents.kind # "json" THEN state
    ELSE LET currentCup == Unmarshal(contents.val) IN
         IF currentCup.ChannelID # name THEN state
         ELSE LET sized == IF currentCup.TeamSize = 0
                           THEN [currentCup EXCEPT !.TeamSize = DefaultTeamSize]
                           ELSE currentCup
              IN  [cups |-> [state.cups EXCEPT ![name] = updateTeamNameCache(sized)],
                   fs |-> IF removeOk THEN removeFile(state.fs, name) ELSE state.fs]

\* The files of the directory, as ioutil.ReadDir lists them
RECURSIVE resumeFrom(_, _, _)
resumeFrom(state, names, removeOk) ==
    IF names = {} THEN state
    ELSE LET name == CHOOSE n \in names : TRUE IN
         resumeFrom(resumeFile(state, name, removeOk), names \ {name}, removeOk)

\* resumeState on the registry `cups`.  readDirOk: the data directory is
\* known and can be listed.
resumeState(cups, fs, readDirOk, removeOk) ==
    IF ~readDirOk THEN [cups |-> cups, fs |-> fs]
    ELSE resumeFrom([cups |-> cups, fs |-> fs], DOMAIN fs, removeOk)

\* suspendState: every registered cup is saved; `failing` are the channels
\* whose file cannot be written.
RECURSIVE suspendFrom(_, _, _, _)
suspendFrom(cups, fs, channels, failing) ==
    IF channels = {} THEN fs
    ELSE LET index == CHOOSE c \in channels : TRUE IN
         suspendFrom(cups, save(fs, cups[index], index \notin failing),
                     channels \ {index}, failing)

suspendState(cups, fs, failing) ==
    suspendFrom(cups, fs, {c \in DOMAIN cups : cups[c] # NoCup}, failing)

----------------------------------------------------------------------------
(* SpecPersist: the process starts with an empty registry and a data       *)
(* directory of snapshots and other files, resumes, serves add, pick and   *)
(* moderate requests one at a time, suspends and starts again.  procs.main *)
(* tells whether the process is serving; while it is stopped, activeCups   *)
(* still shows the registry it had when it suspended.  The picks are those *)
(* of the user whose turn it is, of the first or the second player still   *)
(* available.                                                              *)

FileNames == {"c1", "c2", "c3"}

teamName(index) ==
    Attributes[decomposeName(index).attribute + 1] \o " "
        \o Nouns[decomposeName(index).noun + 1]

\* The cup `base` with the fields of Cup and Team that the draft itself
\* does not look at: the guild of the channel, set by handleStart, and the
\* team names with the caches, set by chooseTeamNames (team k got index
\* first + k).
registered(base, guildID, first) ==
    updateTeamNameCache(
        [f \in DOMAIN ZeroCup |->
            IF f = "GuildID" THEN guildID
            ELSE IF f \in {"longestTeamName", "longestTeamDescription"} THEN 0
            ELSE IF f = "Teams"
            THEN [i \in 1..Len(base.Teams) |->
                    [First |-> base.Teams[i].First,
                     Last |-> base.Teams[i].Last,
                     Name |-> teamName((first + i - 1) % TeamNameCombos),
                     nameIndex |-> (first + i - 1) % TeamNameCombos]]
            ELSE base[f]])

\* Cups a process before this one saved
SavedCups(channelID) ==
    {registered(signupCup(channelID, 1, teamSize, signedUp), guildID, 0) :
        teamSize \in {1, DefaultTeamSize}, signedUp \in {1}, guildID \in {"", "g1"}}
    \cup
    {registered([closedCup(channelID, MinimumTeams, MinimumTeams, signedUp) EXCEPT
                    !.Moderated = moderated], "g1", first) :
        signedUp \in (MaxPersistUsers - 1)..MaxPersistUsers, moderated \in BOOLEAN,
        first \in {1}}

\* A snapshot as an older version wrote it, with teams of DefaultTeamSize:
\* no TeamSize, or TeamSize 0
WithoutTeamSize(object) == [f \in (DOMAIN object) \ {"TeamSize"} |-> object[f]]

Snapshots(channelID) ==
    {Json(Marshal(cup)) : cup \in SavedCups(channelID)}
    \cup
    UNION {{Json(WithoutTeamSize(Marshal(cup))),
            Json([Marshal(cup) EXCEPT !.TeamSize = 0])} :
              cup \in {c \in SavedCups(channelID) : c.TeamSize = DefaultTeamSize}}

InitPersist ==
    /\ activeCups = [c \in FileNames |-> NoCup]
    /\ reply = Log("", 0, NoToken, NoCup, NoCup)
    /\ order = <<>>
    /\ closed = NoClose
    /\ starts = NoStarts
    /\ lockCups = 0
    /\ naming = NoNaming
    /\ handover = NoHandover
    /\ procs = [main |-> "stopped"]
    /\ \E first \in Snapshots("c1") :
        \E second \in {Dir, Unreadable, Garbage, Json(<<>>), first},
           third \in {Garbage, Json(Marshal(registered(signupCup("c3", 1, 1, 1), "g1", 0)))},
           names \in SUBSET FileNames :
            files = [n \in names |-> IF n = "c1" THEN first
                                     ELSE IF n = "c2" THEN second
                                     ELSE third]

\* The process starts: init() calls resumeState on the empty registry
PersistResume(readDirOk, removeOk) ==
    /\ procs.main = "stopped"
    /\ LET loaded == resumeState([c \in FileNames |-> NoCup], files, readDirOk, removeOk) IN
        /\ activeCups' = loaded.cups
        /\ files' = loaded.fs
    /\ procs' = [main |-> "serving"]
    /\ reply' = Log(IF readDirOk THEN "resumeState: directory read"
                    ELSE "resumeState: no directory", 0, NoToken, NoCup, NoCup)
    /\ order' = <<>>
    /\ closed' = NoClose
    /\ UNCHANGED <<starts, lockCups, handover, naming>>

\* main returns: suspendState, and the process ends
PersistSuspend(failing) ==
    /\ procs.main = "serving"
    /\ files' = suspendState(activeCups, files, failing)
    /\ procs' = [main |-> "stopped"]
    /\ reply' = Log("suspendState", 0, [kind |-> "channels", val |-> failing], NoCup, NoCup)
    /\ UNCHANGED <<activeCups, order, closed, handover, starts, lockCups, naming>>

PersistPick ==
    /\ procs.main = "serving"
    /\ getCup("c1") # NoCup
    /\ LET currentCup == getCup("c1")
           who == whoPicks(currentCup, currentPickup(currentCup))
       IN  \E n \in 0..1 :
               handlePick("c1", who.ID, Num(findAvailablePlayer(currentCup, n) + 1))
NextPersist ==
    \/ \E readDirOk \in BOOLEAN, removeOk \in BOOLEAN : PersistResume(readDirOk, removeOk)
    \/ \E failing \in SUBSET {"c1"} : PersistSuspend(failing)
    \/ \E u \in {1, MaxPersistUsers} : procs.main = "serving" /\ handleAdd("c1", u)
    \/ PersistPick
    \/ \E t \in {NoToken} : procs.main = "serving" /\ handleModerate("c1", 1, FALSE, t)

SpecPersist == InitPersist /\ [][NextPersist]_vars

----------------------------------------------------------------------------
(* SpecLock: the goroutines of one process and lockCups.  main runs        *)
(* resumeState, serves, and on a signal runs suspendState while the        *)
(* session is still open; handlers 1..MaxHandlers each take start, abort   *)
(* and who requests for channel c1, one after the other, and run           *)
(* concurrently.  A step is what a goroutine does between two points where *)
(* another can run.  procs.main and procs.handlers[p].at are the           *)
(* statements the goroutines stand at, procs.handlers[p].has is whether    *)
(* the handler's getCup found a cup, procs.registered the goroutine that   *)
(* made the cup the channel maps to (a handler's addCup, MaxHandlers + 1   *)
(* for resumeState, 0 for no cup) and procs.handlers[p].cup the maker of   *)
(* the cup the handler got from getCup or addCup: the pointer it holds.    *)

Handlers == 1..MaxHandlers

Idle == [op |-> "", at |-> "idle", has |-> FALSE, cup |-> 0]

InitLock ==
    /\ activeCups = [c \in Channels |-> NoCup]
    /\ reply = Log("", 0, NoToken, NoCup, NoCup)
    /\ order = <<>>
    /\ closed = NoClose
    /\ starts = NoStarts
    /\ naming = NoNaming
    /\ handover = NoHandover
    /\ lockCups = 0
    /\ procs = [main |-> "resumeState", handlers |-> [p \in Handlers |-> Idle],
                registered |-> 0]
    /\ files \in {NoFiles,
                  "c1" :> Json(Marshal(registered(signupCup("c1", 1, DefaultTeamSize, 1), "g1", 0)))}

\* init: resumeState up to the first file it is going to register
MainReadDir ==
    /\ procs.main = "resumeState"
    /\ procs' = [procs EXCEPT !.main = IF files = NoFiles THEN "serving"
                                       ELSE "resumeState: insert"]
    /\ UNCHANGED <<activeCups, reply, order, closed, handover, starts, naming, lockCups, files>>

\* resumeState: activeCups[currentCup.ChannelID] = currentCup with
\* os.Remove, and the rest of init and main up to <-done
MainInsert(removeOk) ==
    /\ procs.main = "resumeState: insert"
    /\ LET loaded == resumeState(activeCups, files, TRUE, removeOk) IN
        /\ activeCups' = loaded.cups
        /\ files' = loaded.fs
        /\ procs' = [procs EXCEPT !.main = "serving",
                                  !.registered = IF loaded.cups["c1"] = NoCup
                                                 THEN 0 ELSE MaxHandlers + 1]
    /\ UNCHANGED <<reply, order, closed, handover, starts, naming, lockCups>>

\* main: <-done returns, suspendState is about to range over activeCups
MainSignal ==
    /\ procs.main = "serving"
    /\ procs' = [procs EXCEPT !.main = "suspendState: range"]
    /\ UNCHANGED <<activeCups, reply, order, closed, handover, starts, naming, lockCups, files>>

\* suspendState: the loop over activeCups.  A handler that is writing the
\* map at that time makes it a concurrent map iteration and map write,
\* which the runtime may end the process for (fatal).
MainRange(failing, fatal) ==
    /\ procs.main = "suspendState: range"
    /\ fatal => \E p \in Handlers :
                    procs.handlers[p].at \in {"addCup: insert", "deleteCup: delete"}
    /\ IF fatal
       THEN /\ procs' = [procs EXCEPT !.main = "fatal error"]
            /\ UNCHANGED files
       ELSE /\ procs' = [procs EXCEPT !.main = "stopped"]
            /\ files' = suspendState(activeCups, files, failing)
    /\ UNCHANGED <<activeCups, reply, order, closed, handover, starts, naming, lockCups>>

Running == procs.main \in {"serving", "suspendState: range"}

\* onMessageCreate: a request reaches its handler, which calls getCup
Dispatch(p, op) ==
    /\ Running
    /\ procs.handlers[p].at = "idle"
    /\ procs' = [procs EXCEPT !.handlers[p] = [op |-> op, at |-> "getCup: Lock", has |-> FALSE, cup |-> 0]]
    /\ UNCHANGED <<activeCups, reply, order, closed, handover, starts, naming, lockCups, files>>

\* lockCups.Lock() of getCup, addCup and deleteCup
Lock(p) ==
    /\ Running
    /\ procs.handlers[p].at \in {"getCup: Lock", "addCup: Lock", "deleteCup: Lock"}
    /\ lockCups = 0
    /\ lockCups' = p
    /\ procs' = [procs EXCEPT !.handlers[p].at =
                    CASE @ = "getCup: Lock" -> "getCup: lookup"
                      [] @ = "addCup: Lock" -> "addCup: insert"
                      [] @ = "deleteCup: Lock" -> "deleteCup: delete"]
    /\ UNCHANGED <<activeCups, reply, order, closed, handover, starts, naming, files>>

\* getCup: currentCup := activeCups[channelID]
Lookup(p) ==
    /\ Running
    /\ procs.handlers[p].at = "getCup: lookup"
    /\ procs' = [procs EXCEPT !.handlers[p].at = "getCup: Unlock",
                              !.handlers[p].has = getCup("c1") # NoCup,
                              !.handlers[p].cup = procs.registered]
    /\ UNCHANGED <<activeCups, reply, order, closed, handover, starts, naming, lockCups, files>>

\* addCup: activeCups[channelID] = currentCup
Insert(p) ==
    /\ Running
    /\ procs.handlers[p].at = "addCup: insert"
    /\ activeCups' = addCup(activeCups, "c1")
    /\ procs' = [procs EXCEPT !.handlers[p].at = "addCup: Unlock",
                              !.handlers[p].cup = p,
                              !.registered = p]
    /\ UNCHANGED <<reply, order, closed, handover, starts, naming, lockCups, files>>

\* deleteCup: delete(activeCups, channelID)
Delete(p) ==
    /\ Running
    /\ procs.handlers[p].at = "deleteCup: delete"
    /\ activeCups' = deleteCup(activeCups, "c1")
    /\ procs' = [procs EXCEPT !.handlers[p].at = "deleteCup: Unlock", !.registered = 0]
    /\ UNCHANGED <<reply, order, closed, handover, starts, naming, lockCups, files>>

\* lockCups.Unlock(), the return to the handler and its branch on the
\* result
Unlock(p) ==
    /\ Running
    /\ procs.handlers[p].at \in {"getCup: Unlock", "addCup: Unlock", "deleteCup: Unlock"}
    /\ lockCups' = 0
    /\ LET h == procs.handlers[p] IN
       procs' = [procs EXCEPT !.handlers[p] =
                    CASE h.at = "getCup: Unlock" /\ h.op = "start" ->
                            IF h.has THEN Idle ELSE [h EXCEPT !.at = "addCup: Lock"]
                      [] h.at = "getCup: Unlock" /\ h.op # "start" ->
                            IF h.has THEN [h EXCEPT !.at = "fields"] ELSE Idle
                      [] h.at = "addCup: Unlock" -> [h EXCEPT !.at = "fields"]
                      [] h.at = "deleteCup: Unlock" -> Idle]
    /\ UNCHANGED <<activeCups, reply, order, closed, handover, starts, naming, files>>

\* The handler works on the fields of its cup: handleStart sets the Manager
\* and sends the announcement (sendOk), handleAbort asks isSuperUser
\* (allowed), handleWho reports.
Fields(p, sendOk, allowed) ==
    /\ Running
    /\ procs.handlers[p].at = "fields"
    /\ LET h == procs.handlers[p] IN
       /\ activeCups' = IF h.op = "start" /\ procs.registered = p
                        THEN [activeCups EXCEPT !["c1"].Manager = makePlayer(p)]
                        ELSE activeCups
       /\ procs' = [procs EXCEPT !.handlers[p] =
                       CASE h.op = "start" ->
                               IF sendOk THEN Idle ELSE [h EXCEPT !.at = "deleteCup: Lock"]
                         [] h.op = "abort" ->
                               IF allowed THEN [h EXCEPT !.at = "deleteCup: Lock"] ELSE Idle
                         [] h.op = "who" -> Idle]
    /\ UNCHANGED <<reply, order, closed, handover, starts, naming, lockCups, files>>

NextLock ==
    \/ MainReadDir
    \/ \E removeOk \in BOOLEAN : MainInsert(removeOk)
    \/ MainSignal
    \/ \E failing \in SUBSET Channels, fatal \in BOOLEAN : MainRange(failing, fatal)
    \/ \E p \in Handlers, op \in {"start", "abort", "who"} : Dispatch(p, op)
    \/ \E p \in Handlers : Lock(p)
    \/ \E p \in Handlers : Lookup(p)
    \/ \E p \in Handlers : Insert(p)
    \/ \E p \in Handlers : Delete(p)
    \/ \E p \in Handlers : Unlock(p)
    \/ \E p \in Handlers, sendOk \in BOOLEAN, allowed \in BOOLEAN : Fields(p, sendOk, allowed)

SpecLock == InitLock /\ [][NextLock]_vars

----------------------------------------------------------------------------
(* SpecPicks: MaxPickers pick requests for the cup of channel c1 handled   *)
(* at once, each in a goroutine of its own, over and over.  Nothing locks  *)
(* the cup, so the steps of the handlers interleave: what handlePick reads *)
(* and checks before it calls addPlayerToTeam, the assignment made by      *)
(* addPlayerToTeam, the read and the write of its PickedPlayers++, and the *)
(* rest of handlePick.  procs[p] is where handler p stands and what it     *)
(* holds in its local variables: the author, index, pickup and numActive   *)
(* of handlePick, picked (the PickedPlayers its pickup was computed from), *)
(* n (the PickedPlayers read by the increment), assigned (addPlayerToTeam   *)
(* returned no error).                                                     *)

Pickers == 1..MaxPickers
PickUsers == 1..(MinimumTeams * MaxPickTeamSize)
PickTokens == {NoToken} \cup {Num(n) : n \in 0..(MinimumTeams * MaxPickTeamSize + MaxPickSubs + 1)}

IdlePick == [at |-> "idle", author |-> 0, index |-> -1, pickup |-> [Team |-> -1, Player |-> -1],
             numActive |-> 0, picked |-> 0, n |-> 0, assigned |-> FALSE]

InitPicks ==
    \E teamSize \in 2..MaxPickTeamSize, subs \in 0..MaxPickSubs :
        /\ activeCups = [c \in Channels |->
                            IF c = "c1"
                            THEN closedCup(c, teamSize, MinimumTeams,
                                           MinimumTeams * teamSize + subs)
                            ELSE NoCup]
        /\ reply = Log("", 0, NoToken, NoCup, NoCup)
        /\ order = <<>>
        /\ closed = NoClose
        /\ starts = NoStarts
        /\ lockCups = 0
        /\ files = NoFiles
        /\ naming = NoNaming
        /\ handover = NoHandover
        /\ procs = [p \in Pickers |-> IdlePick]

\* handlePick up to the call of addPlayerToTeam: the request passes every
\* check
accepts(currentCup, author, token) ==
    /\ currentCup # NoCup
    /\ currentCup.Status = CupStatusPickup
    /\ LET pickup == currentPickup(currentCup)
           who == whoPicks(currentCup, pickup)
           numActive == activePlayerCount(currentCup)
           index == token.val - 1
       IN  /\ who # NoPlayer
           /\ who.ID = author
           /\ token.kind = "num"
           /\ ~(index < 0 \/ index >= Len(currentCup.Players))
           /\ ~(index >= numActive /\ index < Len(currentCup.Players))
           /\ currentCup.Players[index + 1].Team = -1

\* A request that handlePick refuses: it changes nothing
PickRefuse(p, author, token) ==
    /\ procs[p].at = "idle"
    /\ ~accepts(getCup("c1"), author, token)
    /\ handlePick("c1", author, token)

\* A request that passes the checks: the handler is about to call
\* addPlayerToTeam(index, pickup.Team)
PickObserve(p, author, token) ==
    /\ procs[p].at = "idle"
    /\ LET currentCup == getCup("c1") IN
       /\ accepts(currentCup, author, token)
       /\ procs' = [procs EXCEPT ![p] =
                       [at |-> "addPlayerToTeam", author |-> author,
                        index |-> token.val - 1,
                        pickup |-> currentPickup(currentCup),
                        numActive |-> activePlayerCount(currentCup),
                        picked |-> currentCup.PickedPlayers,
                        n |-> 0, assigned |-> FALSE]]
    /\ UNCHANGED <<activeCups, reply, order, closed, handover, starts, lockCups, files, naming>>

\* addPlayerToTeam up to its PickedPlayers++, with the team the handler
\* looked up
PickAssign_CurrentTurn(p) ==
    /\ procs[p].at = "addPlayerToTeam"
    /\ LET currentCup == getCup("c1")
           done == addPlayerToTeam(currentCup, procs[p].index, currentPickup(currentCup).Team)
       IN  IF currentCup = NoCup
           THEN /\ procs' = [procs EXCEPT ![p] = IdlePick]
                /\ UNCHANGED activeCups
           ELSE IF done = currentCup
           THEN /\ procs' = [procs EXCEPT ![p].at = "completion"]
                /\ UNCHANGED activeCups
           ELSE /\ procs' = [procs EXCEPT ![p].at = "PickedPlayers: read",
                                          ![p].assigned = TRUE]
                /\ activeCups' = store("c1", [done EXCEPT !.PickedPlayers =
                                                            currentCup.PickedPlayers])
    /\ UNCHANGED <<reply, order, closed, handover, starts, lockCups, files, naming>>

PickAssign(p) ==
    /\ procs[p].at = "addPlayerToTeam"
    /\ LET currentCup == getCup("c1")
           done == addPlayerToTeam(currentCup, procs[p].index, procs[p].pickup.Team)
       IN  IF currentCup = NoCup
           THEN /\ procs' = [procs EXCEPT ![p] = IdlePick]
                /\ UNCHANGED activeCups
           ELSE IF done = currentCup
           THEN /\ procs' = [procs EXCEPT ![p].at = "completion"]
                /\ UNCHANGED activeCups
           ELSE /\ procs' = [procs EXCEPT ![p].at = "PickedPlayers: read",
                                          ![p].assigned = TRUE]
                /\ activeCups' = store("c1", [done EXCEPT !.PickedPlayers =
                                                            currentCup.PickedPlayers])
    /\ UNCHANGED <<reply, order, closed, handover, starts, lockCups, files, naming>>

\* currentCup.PickedPlayers++: the read
PickCountRead(p) ==
    /\ procs[p].at = "PickedPlayers: read"
    /\ LET currentCup == getCup("c1") IN
       procs' = IF currentCup = NoCup
                THEN [procs EXCEPT ![p] = IdlePick]
                ELSE [procs EXCEPT ![p].at = "PickedPlayers: write",
                                   ![p].n = currentCup.PickedPlayers]
    /\ UNCHANGED <<activeCups, reply, order, closed, handover, starts, lockCups, files, naming>>

\* currentCup.PickedPlayers++: the write
PickCountWrite(p) ==
    /\ procs[p].at = "PickedPlayers: write"
    /\ LET currentCup == getCup("c1") IN
       IF currentCup = NoCup
       THEN /\ procs' = [procs EXCEPT ![p] = IdlePick]
            /\ UNCHANGED activeCups
       ELSE /\ procs' = [procs EXCEPT ![p].at = "completion"]
            /\ activeCups' = [activeCups EXCEPT !["c1"].PickedPlayers = procs[p].n + 1]
    /\ UNCHANGED <<reply, order, closed, handover, starts, lockCups, files, naming>>

\* handlePick after addPlayerToTeam: the last player and deleteCup, or the
\* report
PickComplete(p) ==
    /\ procs[p].at = "completion"
    /\ procs' = [procs EXCEPT ![p] = IdlePick]
    /\ LET currentCup == getCup("c1") IN
       IF currentCup = NoCup
       THEN UNCHANGED <<activeCups, reply>>
       ELSE IF currentCup.PickedPlayers = procs[p].numActive - 1
       THEN LET lastPlayer == nextAvailablePlayer(currentCup)
                lastSlot == currentPickup(currentCup)
                final == addPlayerToTeam(currentCup, lastPlayer, lastSlot.Team)
            IN  /\ activeCups' = deleteCup(store("c1", final), "c1")
                /\ reply' = Log("pick: teams complete", procs[p].author,
                                Num(procs[p].index + 1), currentCup, final)
       ELSE /\ reply' = Log("pick: joined team", procs[p].author,
                            Num(procs[p].index + 1), currentCup, NoCup)
            /\ UNCHANGED activeCups
    /\ UNCHANGED <<order, closed, handover, starts, lockCups, files, naming>>

NextPicks ==
    \/ \E p \in Pickers, author \in PickUsers, token \in PickTokens :
           PickRefuse(p, author, token)
    \/ \E p \in Pickers, author \in PickUsers, token \in PickTokens :
           PickObserve(p, author, token)
    \/ \E p \in Pickers : PickAssign(p)
    \/ \E p \in Pickers : PickCountRead(p)
    \/ \E p \in Pickers : PickCountWrite(p)
    \/ \E p \in Pickers : PickComplete(p)

SpecPicks == InitPicks /\ [][NextPicks]_vars

----------------------------------------------------------------------------
(* Run-time faults.  Go ends the process on an index outside a slice and   *)
(* on an integer division by zero.  For each function that indexes Players *)
(* or Teams or divides, the operator below says whether a call in the      *)
(* given cup with the given arguments reaches such an access; its          *)
(* conditions are those under which the code gets to the access.           *)

InRange(index, length) == index >= 0 /\ index < length

\* cup.go:256-257: PickedPlayers / len(Teams), PickedPlayers % len(Teams)
currentPickupFaults(currentCup) == Len(currentCup.Teams) = 0

\* cup.go:239: target % TeamSize
targetPlayerCountFaults(currentCup) == currentCup.TeamSize = 0

\* cup.go:177-186: Players[i] for i < numActive, up to the nth free player
findAvailablePlayerFaults(currentCup, nth) ==
    LET numActive == activePlayerCount(currentCup)
        free == {i \in 0..(numActive - 1) :
                    /\ i < Len(currentCup.Players)
                    /\ currentCup.Players[i + 1].Team = -1}
    IN  /\ ~(nth < 0 \/ nth > numActive)
        /\ numActive > Len(currentCup.Players)
        /\ Cardinality(free) <= nth

\* cup.go:345-359: Players[playerIndex], Teams[teamIndex], Players[team.Last]
addPlayerToTeamFaults(currentCup, playerIndex, teamIndex) ==
    /\ InRange(playerIndex, Len(currentCup.Players))
    /\ InRange(teamIndex, Len(currentCup.Teams))
    /\ currentCup.Players[playerIndex + 1].Team = -1
    /\ currentCup.Teams[teamIndex + 1].First # -1
    /\ ~InRange(currentCup.Teams[teamIndex + 1].Last, Len(currentCup.Players))

\* cup.go:377-383: Players[playerIndex] along the Next links of a team
RECURSIVE lineupFaultsFrom(_, _, _)
lineupFaultsFrom(currentCup, playerIndex, steps) ==
    IF playerIndex = -1 THEN FALSE
    ELSE IF ~InRange(playerIndex, Len(currentCup.Players)) THEN TRUE
    ELSE IF steps = 0 THEN FALSE
    ELSE lineupFaultsFrom(currentCup, currentCup.Players[playerIndex + 1].Next, steps - 1)

getLineupFaults(currentCup, index) ==
    /\ InRange(index, Len(currentCup.Teams))
    /\ lineupFaultsFrom(currentCup, currentCup.Teams[index + 1].First,
                        Len(currentCup.Players) + 1)

CupReportAll == {"Teams", "Players", "Subs", "NextAction"}

\* cup.go:388-478: report, which every handler ends with
reportFaults(currentCup, selector) ==
    /\ currentCup.Status = CupStatusPickup
    /\ LET active == activePlayerCount(currentCup) IN
       \/ /\ "Teams" \in selector
          /\ \E i \in 0..(Len(currentCup.Teams) - 1) : getLineupFaults(currentCup, i)
       \/ /\ "Players" \in selector
          /\ active - currentCup.PickedPlayers > 0
          /\ active > Len(currentCup.Players)
       \/ /\ "Subs" \in selector
          /\ Len(currentCup.Players) - active > 0
          /\ active < 0
       \/ /\ "NextAction" \in selector
          /\ currentPickupFaults(currentCup)

\* part_000:295-406
handlePickFaults(currentCup, author, token) ==
    IF currentCup = NoCup \/ currentCup.Status # CupStatusPickup THEN FALSE
    ELSE IF currentPickupFaults(currentCup) THEN TRUE
    ELSE LET pickup == currentPickup(currentCup)
             who == whoPicks(currentCup, pickup)
             numActive == activePlayerCount(currentCup)
             index == token.val - 1
         IN  IF who = NoPlayer \/ who.ID # author \/ token.kind # "num" THEN FALSE
             ELSE IF index < 0 \/ index >= Len(currentCup.Players) THEN FALSE
             ELSE IF index >= numActive /\ index < Len(currentCup.Players) THEN FALSE
             ELSE IF currentCup.Players[index + 1].Team # -1
             THEN ~InRange(currentCup.Players[index + 1].Team, Len(currentCup.Teams))
             ELSE IF addPlayerToTeamFaults(currentCup, index, pickup.Team) THEN TRUE
             ELSE LET picked == addPlayerToTeam(currentCup, index, pickup.Team) IN
                  IF picked.PickedPlayers # numActive - 1 THEN FALSE
                  ELSE IF findAvailablePlayerFaults(picked, 0) THEN TRUE
                  ELSE IF currentPickupFaults(picked) THEN TRUE
                  ELSE LET lastPlayer == nextAvailablePlayer(picked)
                           lastSlot == currentPickup(picked)
                       IN  \/ addPlayerToTeamFaults(picked, lastPlayer, lastSlot.Team)
                           \/ reportFaults(addPlayerToTeam(picked, lastPlayer, lastSlot.Team),
                                           {"Teams", "Subs"})

\* part_000:113-206
handleRemoveFaults(currentCup, author, token) ==
    IF currentCup = NoCup THEN FALSE
    ELSE IF currentCup.Status \notin {CupStatusSignup, CupStatusPickup} THEN FALSE
    ELSE IF Len(currentCup.Players) = 0 THEN FALSE
    ELSE IF token.kind # "none" /\ (~isManager(currentCup, author) \/ token.kind # "num")
    THEN FALSE
    ELSE IF token.kind # "none"
            /\ (token.val - 1 < 0 \/ token.val - 1 >= Len(currentCup.Players))
    THEN FALSE
    ELSE LET which == IF token.kind # "none" THEN token.val - 1
                      ELSE findPlayer(currentCup, author)
             active == activePlayerCount(currentCup)
             swaps == /\ currentCup.Status >= CupStatusPickup
                      /\ which < active
                      /\ active < Len(currentCup.Players)
             removed == IF swaps THEN active ELSE which
         IN  IF which = -1 THEN FALSE
             ELSE IF currentCup.Status >= CupStatusPickup /\ which < active /\ ~swaps THEN FALSE
             ELSE \/ currentCup.Status >= CupStatusPickup
                     /\ ~InRange(which, Len(currentCup.Players))
                  \/ swaps /\ ~InRange(active, Len(currentCup.Players))
                  \/ ~InRange(removed, Len(currentCup.Players))

\* part_000:209-293
handleCloseFaults(currentCup, author, token) ==
    IF currentCup = NoCup \/ ~isManager(currentCup, author) THEN FALSE
    ELSE IF currentCup.Status # CupStatusSignup THEN FALSE
    ELSE LET signedUp == Len(fillUp(currentCup).Players)
             minPlayers == minPlayerCount(currentCup)
         IN  IF signedUp < minPlayers THEN FALSE
             ELSE IF token.kind \notin {"none", "num"} THEN FALSE
             ELSE IF token.kind = "num" /\ (token.val > signedUp \/ token.val < minPlayers)
             THEN FALSE
             ELSE LET kept == IF token.kind = "num" THEN token.val ELSE signedUp IN
                  \/ currentCup.TeamSize = 0
                  \/ currentCup.TeamSize < 0 /\ kept > 0

(* SpecFault: every command that changes what the accesses above depend on *)
(* (start, abort, add, remove, close, pick, reopen, teamsize), from no cup *)
(* and from the cups a close leaves (with and without a substitute), with  *)
(* numbers below and above the valid ones, while the cup has at most       *)
(* MaxFaultPlayers players; users sign up while it has fewer than          *)
(* MaxFaultUsers.  The user whose turn it is picks too (OrderPick).        *)

FaultUsers == 1..MaxFaultUsers
FaultTokens == {NoToken, BadToken} \cup {Num(n) : n \in (0 - 1)..(MaxFaultPlayers + 1)}

Roomy(c) == getCup(c) # NoCup => Len(getCup(c).Players) <= MaxFaultPlayers

InitFault ==
    \/ Init
    \/ \E teamSize \in 1..MaxTeamSize, subs \in 0..MaxPassSubs :
           InitClosed(teamSize, MinimumTeams, MinimumTeams * teamSize + subs)

NextFault ==
    \/ \E c \in Channels, u \in Starters, sendOk \in BOOLEAN :
           handleStart(c, u, sendOk)
    \/ \E c \in Channels, u \in FaultUsers, hasAdminRole \in BOOLEAN :
           Roomy(c) /\ handleAbort(c, u, hasAdminRole)
    \/ \E c \in Channels, u \in FaultUsers :
           /\ getCup(c) # NoCup => Len(getCup(c).Players) < MaxFaultUsers
           /\ handleAdd(c, u)
    \/ \E c \in Channels, u \in FaultUsers, t \in FaultTokens :
           Roomy(c) /\ handleRemove(c, u, t)
    \/ \E c \in Channels, u \in FaultUsers, t \in FaultTokens :
           Roomy(c) /\ handleClose(c, u, t)
    \/ \E c \in Channels, u \in FaultUsers, t \in FaultTokens :
           Roomy(c) /\ handlePick(c, u, t)
    \/ \E c \in Channels, u \in FaultUsers : Roomy(c) /\ handleReopen(c, u)
    \/ \E c \in Channels, u \in FaultUsers, t \in FaultTokens :
           Roomy(c) /\ handleTeamSize(c, u, t)
    \/ OrderPick

SpecFault == InitFault /\ [][NextFault]_vars

----------------------------------------------------------------------------
(* SpecSingle: the handlers as src/draftus.go has them in one file. There   *)
(* the team size is the constant TeamSize, not a field of the cup; the      *)
(* model keeps the cup's TeamSize field at that constant, so the operators  *)
(* whose text is otherwise the same in both variants (currentPickup,        *)
(* whoPicks, addPlayerToTeam, handlePick) serve both. The cup starts in     *)
(* Signup with MinimumPlayers users signed up and user 1 its manager.       *)

TeamSize == 4
MinimumPlayers == TeamSize * MinimumTeams

draftusHandleClose(channelID, author, token) ==
    LET currentCup == getCup(channelID) IN
    IF currentCup = NoCup
    THEN Rejected(currentCup, "close: no cup")
    ELSE IF ~isManager(currentCup, author)
    THEN Rejected(currentCup, "close: only the manager")
    ELSE IF currentCup.Status # CupStatusSignup
    THEN Rejected(currentCup, "close: already closed")
    ELSE LET filled == fillUp(currentCup)
             signedUp == Len(filled.Players)
             kept == IF token.kind = "num" THEN token.val ELSE signedUp
         IN  IF signedUp < MinimumPlayers
             THEN /\ Done(deleteCup(activeCups, channelID), currentCup,
                          "close: too few signed up, cup aborted", author, token)
                  /\ UNCHANGED order
                  /\ closed' = NoClose
             ELSE IF token.kind \notin {"none", "num"}
             THEN RejectedFilled(store(channelID, filled), currentCup, "close: not a number")
             ELSE IF kept > signedUp
             THEN RejectedFilled(store(channelID, filled), currentCup, "close: that many have not signed up")
             ELSE IF kept < MinimumPlayers
             THEN RejectedFilled(store(channelID, filled), currentCup, "close: keep at least the minimum")
             ELSE /\ Done(store(channelID,
                              [filled EXCEPT
                                  !.Status = CupStatusPickup,
                                  !.Teams = [i \in 1..(kept \div TeamSize) |-> TeamResetTeam]]),
                          currentCup, "close: registration closed", author, token)
                  /\ order' = <<>>
                  /\ closed' = Closed(activeCups'[channelID], kept)

draftusHandleReopen(channelID, author) ==
    LET currentCup == getCup(channelID) IN
    IF currentCup = NoCup \/ currentCup.Status = CupStatusInactive
    THEN Rejected(currentCup, "reopen: no cup")
    ELSE IF currentCup.Status # CupStatusPickup
    THEN Rejected(currentCup, "reopen: picking has not begun")
    ELSE IF ~isManager(currentCup, author)
    THEN Rejected(currentCup, "reopen: only the manager")
    ELSE /\ Done(store(channelID,
                     [currentCup EXCEPT
                         !.Teams = <<>>,
                         !.Players = [i \in 1..Len(@) |-> PlayerResetTeam(@[i])],
                         !.Status = CupStatusSignup]),
                 currentCup, "reopen: teams discarded, cup reopened", author, NoToken)
         /\ order' = <<>>
         /\ UNCHANGED closed

SingleUsers == 1..MaxSingleUsers
SingleTokens == {NoToken} \cup {Num(n) : n \in 1..MaxSinglePick}

InitSingle ==
    /\ activeCups = [c \in Channels |-> signupCup(c, 1, TeamSize, MinimumPlayers)]
    /\ reply = Log("start: registration open", 1, NoToken, NoCup, NoCup)
    /\ order = <<>>
    /\ closed = NoClose
    /\ Serialized

NextSingle ==
    \/ \E c \in Channels, u \in SingleUsers, t \in SingleTokens :
           draftusHandleClose(c, u, t)
    \/ \E c \in Channels, u \in SingleUsers, t \in SingleTokens : handlePick(c, u, t)
    \/ \E c \in Channels, u \in SingleUsers : draftusHandleReopen(c, u)

SpecSingle == InitSingle /\ [][NextSingle]_vars

----------------------------------------------------------------------------
(* SpecSwap and SpecLive: a draft of MinimumTeams teams from the close on,  *)
(* with no reopen and no abort.  Every user withdraws while picking is      *)
(* under way.  In SpecSwap every user asks for the first player still       *)
(* available and signs up (again) as a substitute, and the history handover *)
(* is kept.  In SpecLive every user asks for any player, only the user who  *)
(* stayed out at the close or withdrew as a substitute signs up, and        *)
(* accepted picks are made under weak fairness: a user whose turn it is     *)
(* does not wait forever.                                                   *)

LiveUsers == 1..(MaxLiveTeamSize * MinimumTeams + MaxLiveSubs)
LiveTokens == {Num(n) : n \in 1..(MaxLiveTeamSize * MinimumTeams + MaxLiveSubs)}

InitLive ==
    \E teamSize \in 1..MaxLiveTeamSize, subs \in 0..MaxLiveSubs :
        InitClosed(teamSize, MinimumTeams, teamSize * MinimumTeams + subs)

InitSwap ==
    \E teamSize \in 1..MaxLiveTeamSize, subs \in 0..MaxLiveSubs :
        LET draft == closedCup("c1", teamSize, MinimumTeams,
                               teamSize * MinimumTeams + subs)
        IN  /\ activeCups = [c \in Channels |-> draft]
            /\ reply = Log("close: registration closed", 1,
                           Num(MinimumTeams * teamSize),
                           [draft EXCEPT !.Status = CupStatusSignup, !.Teams = <<>>],
                           NoCup)
            /\ order = <<>>
            /\ closed = [cup |-> draft, kept |-> MinimumTeams * teamSize,
                         before |-> NoCup]
            /\ starts = NoStarts
            /\ AtRest
            /\ handover = [NoHandover EXCEPT !.kept = TRUE]

LiveAdd(c, u) ==
    /\ getCup(c) # NoCup
    /\ Len(getCup(c).Players) < activePlayerCount(getCup(c)) + MaxLiveSubs
    /\ handleAdd(c, u)

NextSwap ==
    \/ \E c \in Channels, u \in LiveUsers :
           /\ getCup(c) # NoCup
           /\ handlePick(c, u, Num(nextAvailablePlayer(getCup(c)) + 1))
    \/ \E c \in Channels, u \in LiveUsers : handleRemove(c, u, NoToken)
    \/ \E c \in Channels, u \in LiveUsers : LiveAdd(c, u)

SpecSwap == InitSwap /\ [][NextSwap]_vars

NextLive ==
    \/ \E c \in Channels, u \in LiveUsers, t \in LiveTokens : handlePick(c, u, t)
    \/ \E c \in Channels, u \in LiveUsers : handleRemove(c, u, NoToken)
    \/ \E c \in Channels :
           LiveAdd(c, activePlayerCount(getCup(c)) + MaxLiveSubs)

AcceptedPick ==
    \E c \in Channels, u \in LiveUsers, t \in LiveTokens :
        accepts(getCup(c), u, t) /\ handlePick(c, u, t)

SpecLive == InitLive /\ [][NextLive]_vars /\ WF_vars(AcceptedPick)

----------------------------------------------------------------------------
(* Properties *)

Cup == activeCups["c1"]

ActiveSlots(currentCup) == 0..(activePlayerCount(currentCup) - 1)

Assigned(currentCup) ==
    {i \in ActiveSlots(currentCup) : currentCup.Players[i + 1].Team # -1}

Drafted ==
    IF Cup # NoCup THEN Cup
    ELSE IF reply.kind = "pick: teams complete" THEN reply.report
    ELSE NoCup

SnakeTeam(picked, numTeams) ==
    LET seat == picked \div numTeams
        team == picked % numTeams
    IN  IF seat \in {2, 3} THEN numTeams - 1 - team ELSE team

FourByFour == <<0, 1, 2, 3,  0, 1, 2, 3,  3, 2, 1, 0,  3, 2, 1, 0>>

\* C2: currentPickup returns seat = PickedPlayers div len(Teams) and team =
\* PickedPlayers mod len(Teams), mirrored to len(Teams)-1-team exactly in
\* seats 2 and 3; the players picked go to the teams in that order, which for
\* 4 teams of 4 is 0,1,2,3, 0,1,2,3, 3,2,1,0, 3,2,1,0.
C2_SnakeOrder ==
    Drafted.Status = CupStatusPickup =>
        LET numTeams == Len(Drafted.Teams) IN
        /\ Cup # NoCup =>
              currentPickup(Cup) =
                  [Team |-> SnakeTeam(Cup.PickedPlayers, numTeams),
                   Player |-> Cup.PickedPlayers \div numTeams]
        /\ \A i \in 1..Len(order) : order[i] = SnakeTeam(i - 1, numTeams)
        /\ (numTeams = 4 /\ Drafted.TeamSize = 4) =>
              order = SubSeq(FourByFour, 1, Len(order))

C2_Witness ==
    /\ reply.kind = "pick: teams complete"
    /\ Len(reply.report.Teams) = 4
    /\ reply.report.TeamSize = 4
    /\ order = FourByFour

Range(seq) == {seq[k] : k \in 1..Len(seq)}

\* The messages of each handler: a step whose message is none of a
\* handler's is no run of that handler.
AddKinds ==
    {"add: no cup", "add: already registered", "add: joined as substitute",
     "add: signed up", "add: no longer open"}
RemoveKinds ==
    {"remove: no cup", "remove: not open", "remove: no players",
     "remove: only the manager removes others", "remove: not a number",
     "remove: not a valid player number", "remove: not registered",
     "remove: left, substitute takes the place",
     "remove: no substitute available", "remove: substitute left",
     "remove: withdrawn"}
CloseKinds ==
    {"close: no cup", "close: only the manager", "close: already closed",
     "close: too few signed up, cup aborted", "close: registration closed",
     "close: not a number", "close: that many have not signed up",
     "close: keep at least the minimum"}

PickDone == reply.kind \in {"pick: joined team", "pick: teams complete"}

\* C3: the successful pick that brings PickedPlayers to activeCount-1 also
\* gives the one active player left to the team whose turn it then is and
\* removes the cup from the registry, in the same handler run: no cup stays
\* registered with one slot open, and a draft of A active slots completes on
\* its (A-1)th successful pick.
C3_AutoFill ==
    /\ Cup.Status = CupStatusPickup =>
          Cup.PickedPlayers <= activePlayerCount(Cup) - 2
    /\ PickDone =>
          LET was == reply.was
              numActive == activePlayerCount(was)
              target == reply.token.val - 1
              left == ActiveSlots(was) \ (Assigned(was) \cup {target})
          IN  /\ (reply.kind = "pick: teams complete") <=>
                     (was.PickedPlayers + 1 = numActive - 1)
              /\ reply.kind = "pick: joined team" => Cup # NoCup
              /\ reply.kind = "pick: teams complete" =>
                     /\ Cup = NoCup
                     /\ was.PickedPlayers = numActive - 2
                     /\ Cardinality(left) = 1
                     /\ \A last \in left :
                            reply.report.Players[last + 1].Team =
                                SnakeTeam(numActive - 1, Len(was.Teams))
                     /\ reply.report.PickedPlayers = numActive
                     /\ Len(order) = numActive

C3_Witness ==
    /\ reply.kind = "pick: teams complete"
    /\ activePlayerCount(reply.was) = 8
    /\ reply.was.PickedPlayers = 6

\* C4: when a draft completes, every team's list holds exactly TeamSize
\* players, every active slot is on exactly one team's list (the team its
\* Team field names), and no substitute slot has a team.
C4_CompleteTeams ==
    reply.kind = "pick: teams complete" =>
        LET final == reply.report
            teams == 0..(Len(final.Teams) - 1)
        IN  /\ \A t \in teams :
                  LET lineup == getLineup(final, t) IN
                  /\ Len(lineup) = final.TeamSize
                  /\ Cardinality(Range(lineup)) = Len(lineup)
                  /\ \A i \in Range(lineup) :
                        i \in ActiveSlots(final) /\ final.Players[i + 1].Team = t
            /\ \A i \in ActiveSlots(final) :
                  Cardinality({t \in teams : i \in Range(getLineup(final, t))}) = 1
            /\ \A i \in 0..(Len(final.Players) - 1) :
                  i \notin ActiveSlots(final) =>
                      /\ final.Players[i + 1].Team = -1
                      /\ \A t \in teams : i \notin Range(getLineup(final, t))

C4_Witness ==
    /\ reply.kind = "pick: teams complete"
    /\ reply.report.TeamSize = 4
    /\ Len(reply.report.Teams) = 3
    /\ Len(reply.report.Players) > activePlayerCount(reply.report)

IDs(currentCup) == {currentCup.Players[k].ID : k \in 1..Len(currentCup.Players)}

\* The last command was a close by the manager, during sign-up, of a cup
\* with fewer players signed up than two teams need.
ClosedShort ==
    /\ reply.kind \in CloseKinds \ {"close: no cup", "close: only the manager"}
    /\ reply.was.Status = CupStatusSignup
    /\ Len(reply.was.Players) < reply.was.TeamSize * 2

\* C5 as stated: a close with fewer than TeamSize * 2 players signed up
\* leaves the cup registered, in Signup, with its roster unchanged.
C5_CloseShortKeepsCup == ClosedShort => Cup = reply.was

\* C5, amended: a close by the manager with fewer than TeamSize * 2 players
\* signed up aborts the cup: it is removed from the registry and never
\* enters Pickup.
C5_CloseShortAborts ==
    ClosedShort =>
        /\ Cup = NoCup
        /\ reply.kind = "close: too few signed up, cup aborted"

C5_Witness ==
    /\ ClosedShort
    /\ Len(reply.was.Players) = 3
    /\ reply.was.TeamSize = 4
    /\ Cup = NoCup

C7_SignupAdd ==
    [][\A u \in Users :
        (reply'.kind \in AddKinds /\ Cup.Status = CupStatusSignup
            /\ handleAdd("c1", u)) =>
            IF u \in IDs(Cup)
            THEN Cup' = Cup
            ELSE Cup' = [Cup EXCEPT !.Players =
                           Append(@, [Name |-> Username(u), ID |-> u,
                                      Team |-> -1, Next |-> -1])]
      ]_vars

C7_Witness ==
    /\ reply.kind = "add: already registered"
    /\ Cup.Status = CupStatusSignup
    /\ Len(Cup.Players) >= 2

\* C8 as stated: in Pickup an add by a user whose ID is already in the roster
\* is accepted and appended as a new entry at the end of the roster.
C8_PickupAddBypassesCheck ==
    [][\A u \in Users :
        (reply'.kind \in AddKinds /\ Cup.Status = CupStatusPickup
            /\ u \in IDs(Cup) /\ handleAdd("c1", u)) =>
            /\ Len(Cup'.Players) = Len(Cup.Players) + 1
            /\ Cup'.Players[Len(Cup'.Players)].ID = u
      ]_vars

\* C8, amended: in Pickup the check for an earlier sign-up applies as in
\* Signup: an add by a user whose ID is already in the roster is refused and
\* changes nothing; an add by a user not in the roster appends that user as
\* a new substitute entry at the end of the roster.
C8_PickupAddChecksDuplicates ==
    [][\A u \in Users :
        (reply'.kind \in AddKinds /\ Cup.Status = CupStatusPickup
            /\ handleAdd("c1", u)) =>
            IF u \in IDs(Cup)
            THEN Cup' = Cup /\ reply'.kind = "add: already registered"
            ELSE /\ Cup'.Players = Append(Cup.Players, makePlayer(u))
                 /\ Len(Cup'.Players) > activePlayerCount(Cup')
                 /\ reply'.kind = "add: joined as substitute"
      ]_vars

C8_Witness ==
    /\ reply.kind = "add: already registered"
    /\ Cup.Status = CupStatusPickup
    /\ Cup.PickedPlayers >= 1

\* C9: no registered cup ever has two roster entries with the same ID.
C9_UniqueIDs ==
    \A c \in Channels :
        activeCups[c] # NoCup =>
            \A i, j \in 1..Len(activeCups[c].Players) :
                activeCups[c].Players[i].ID = activeCups[c].Players[j].ID => i = j

C9_Witness ==
    /\ Cup.Status = CupStatusPickup
    /\ reply.kind = "add: joined as substitute"
    /\ reply.author \notin IDs(reply.was)
    /\ Len(Cup.Players) > activePlayerCount(Cup)

\* The roster slot a remove request of user u with argument t is about
SlotOf(currentCup, u, t) ==
    IF t.kind = "num" THEN t.val - 1
    ELSE CHOOSE i \in -1..(Len(currentCup.Players) - 1) :
            /\ i >= 0 => currentCup.Players[i + 1].ID = u
            /\ \A j \in 0..(Len(currentCup.Players) - 1) :
                  currentCup.Players[j + 1].ID = u => (i >= 0 /\ i <= j)

\* C10: in Pickup, withdrawing the player in active slot w while the roster
\* is longer than activeCount puts the ID and Name of the substitute at index
\* activeCount into slot w, keeps slot w's Team and Next, every other active
\* slot, all teams and PickedPlayers, leaves no entry with the leaving
\* player's ID and shortens the roster by one.
C10_SubstituteSwap ==
    [][( /\ reply'.kind \in RemoveKinds
         /\ Cup.Status = CupStatusPickup
         /\ activePlayerCount(Cup) < Len(Cup.Players) ) =>
        \A u \in IDs(Cup) \cup {Cup.Manager.ID}, t \in DraftTokens :
            LET w == SlotOf(Cup, u, t)
                active == activePlayerCount(Cup)
            IN  ( /\ (t.kind = "num" => Cup.Manager.ID = u)
                  /\ 0 <= w /\ w < active
                  /\ handleRemove("c1", u, t) ) =>
                    /\ Len(Cup'.Players) = Len(Cup.Players) - 1
                    /\ Cup'.Players[w + 1] =
                           [Cup.Players[w + 1] EXCEPT
                               !.ID = Cup.Players[active + 1].ID,
                               !.Name = Cup.Players[active + 1].Name]
                    /\ \A i \in ActiveSlots(Cup) \ {w} :
                           Cup'.Players[i + 1] = Cup.Players[i + 1]
                    /\ Cup'.Teams = Cup.Teams
                    /\ Cup'.PickedPlayers = Cup.PickedPlayers
                    /\ Cup.Players[w + 1].ID \notin IDs(Cup')
      ]_vars

C10_Witness ==
    /\ reply.kind = "remove: left, substitute takes the place"
    /\ reply.token.kind = "num"
    /\ reply.was.Players[reply.token.val].Team = 1
    /\ Cup.Players[reply.token.val].Team = 1
    /\ Cup.Players[reply.token.val].ID = reply.was.Players[activePlayerCount(Cup) + 1].ID
    /\ Cup.TeamSize = 2

\* C11: in Pickup, a request to withdraw the player in an active slot while
\* the roster is exactly activeCount long (no substitute) is refused and
\* changes nothing: roster, every Team and Next, teams, PickedPlayers and
\* Status are as before the request.
C11_NoSubstituteNoChange ==
    [][( /\ reply'.kind \in RemoveKinds
         /\ Cup.Status = CupStatusPickup
         /\ activePlayerCount(Cup) = Len(Cup.Players) ) =>
        \A u \in IDs(Cup) \cup {Cup.Manager.ID}, t \in DraftTokens :
            LET w == SlotOf(Cup, u, t)
                active == activePlayerCount(Cup)
            IN  ( /\ (t.kind = "num" => Cup.Manager.ID = u)
                  /\ 0 <= w /\ w < active
                  /\ handleRemove("c1", u, t) ) =>
                    /\ reply'.kind = "remove: no substitute available"
                    /\ Cup' = Cup
                    /\ Cup'.Players = Cup.Players
                    /\ Cup'.Teams = Cup.Teams
                    /\ Cup'.PickedPlayers = Cup.PickedPlayers
                    /\ Cup'.Status = CupStatusPickup
      ]_vars

C11_Witness ==
    /\ reply.kind = "remove: no substitute available"
    /\ Cup = reply.was
    /\ Cup.Status = CupStatusPickup
    /\ Cup.PickedPlayers >= 1
    /\ Len(Cup.Players) = activePlayerCount(Cup)

\* C12: a withdrawal in Signup, or of a substitute slot (index >=
\* activeCount) in Pickup, removes exactly the entry at that index and moves
\* every later entry down by one, order kept; in Pickup every active slot,
\* the teams, PickedPlayers and the current turn are as before.
C12_PlainRemoval ==
    [][( /\ reply'.kind \in RemoveKinds
         /\ Cup.Status \in {CupStatusSignup, CupStatusPickup} ) =>
        \A u \in RosterUsers, t \in RosterTokens :
            LET w == SlotOf(Cup, u, t)
                n == Len(Cup.Players)
            IN  ( /\ (t.kind = "num" => Cup.Manager.ID = u)
                  /\ 0 <= w /\ w < n
                  /\ Cup.Status = CupStatusPickup => w >= activePlayerCount(Cup)
                  /\ handleRemove("c1", u, t) ) =>
                    /\ Cup' # NoCup
                    /\ Len(Cup'.Players) = n - 1
                    /\ \A i \in 1..w : Cup'.Players[i] = Cup.Players[i]
                    /\ \A i \in (w + 1)..(n - 1) : Cup'.Players[i] = Cup.Players[i + 1]
                    /\ Cup' = [Cup EXCEPT !.Players = Cup'.Players]
                    /\ Cup.Status = CupStatusPickup =>
                          /\ \A i \in ActiveSlots(Cup) :
                                 Cup'.Players[i + 1] = Cup.Players[i + 1]
                          /\ Cup'.Teams = Cup.Teams
                          /\ Cup'.PickedPlayers = Cup.PickedPlayers
                          /\ currentPickup(Cup') = currentPickup(Cup)
      ]_vars

\* The first of two substitutes leaves a draft in which a pick has been made
C12_Witness ==
    /\ reply.kind = "remove: substitute left"
    /\ reply.token.kind = "num"
    /\ reply.token.val = activePlayerCount(Cup) + 1
    /\ Len(reply.was.Players) = activePlayerCount(Cup) + 2
    /\ Cup.PickedPlayers >= 1
    /\ Cup.Players[activePlayerCount(Cup) + 1] =
           reply.was.Players[activePlayerCount(Cup) + 2]

\* The (ID, Name) pairs of the roster entries
Entries(currentCup) ==
    {<<currentCup.Players[i].ID, currentCup.Players[i].Name>> :
        i \in 1..Len(currentCup.Players)}

PickKinds ==
    {"pick: no cup", "pick: not picking yet", "pick: not picking at this point",
     "pick: not your turn", "pick: not your turn, but another's",
     "pick: need a player number", "pick: not a number",
     "pick: not a valid player number", "pick: only a substitute",
     "pick: already on a team", "pick: joined team", "pick: teams complete"}

\* C14: in Pickup a pick request is refused and leaves PickedPlayers, every
\* player's Team and Next and every team's First and Last as they were when
\* the requester is not the player whoPicks returns for the current turn, or
\* the player number is outside the roster, or names a substitute (index >=
\* activeCount), or names a player whose Team is already set.
C14_PickRefused ==
    [][( /\ reply'.kind \in PickKinds
         /\ Cup.Status = CupStatusPickup
         /\ (activeCups' # activeCups \/ reply'.kind \in {"pick: joined team", "pick: teams complete"}) ) =>
        \A u \in RosterUsers, t \in RosterTokens :
            LET who == whoPicks(Cup, currentPickup(Cup))
                index == IF t.kind = "num" THEN t.val - 1 ELSE -1
            IN  ( /\ reply'.author = u
                  /\ reply'.token = t
                  /\ \/ who = NoPlayer
                     \/ who.ID # u
                     \/ /\ t.kind = "num"
                        /\ \/ index < 0
                           \/ index >= Len(Cup.Players)
                           \/ index >= activePlayerCount(Cup)
                           \/ Cup.Players[index + 1].Team # -1
                  /\ handlePick("c1", u, t) ) =>
                    /\ reply'.kind \notin {"pick: joined team", "pick: teams complete"}
                    /\ Cup' # NoCup
                    /\ Cup'.PickedPlayers = Cup.PickedPlayers
                    /\ Cup'.Players = Cup.Players
                    /\ Cup'.Teams = Cup.Teams
      ]_vars

\* A pick of a substitute is refused in a draft with a pick made
C14_Witness ==
    /\ reply.kind = "pick: only a substitute"
    /\ Cup = reply.was
    /\ Cup.Status = CupStatusPickup
    /\ Cup.PickedPlayers >= 1
    /\ Len(Cup.Players) > activePlayerCount(Cup)

\* C15: every successful pick at seat 0 is made by the cup's manager, and
\* every successful pick at seat >= 1 by the user whose ID is in the roster
\* slot Teams[team].First of the team that receives the player; whoPicks
\* returns nothing when Status is not Pickup or the seat or the team index
\* is out of range.
C15_WhoPicks ==
    /\ PickDone =>
          LET was == reply.was
              turn == currentPickup(was)
              first == was.Teams[turn.Team + 1].First
              picked == reply.token.val - 1
              after == Drafted
          IN  /\ after.Players[picked + 1].Team = turn.Team
              /\ turn.Player = 0 => reply.author = was.Manager.ID
              /\ turn.Player >= 1 =>
                    /\ first >= 0
                    /\ reply.author = was.Players[first + 1].ID
    /\ Cup # NoCup =>
          \A status \in {CupStatusInactive, CupStatusSignup, CupStatusPickup},
             seat \in -1..(MaxOrderTeamSize + 1), team \in -1..(MaxOrderTeams + 1) :
              ( \/ status # CupStatusPickup
                \/ seat < 0 \/ seat >= Cup.TeamSize
                \/ team < 0 \/ team >= Len(Cup.Teams) ) =>
                  whoPicks([Cup EXCEPT !.Status = status],
                           [Team |-> team, Player |-> seat]) = NoPlayer

\* A captain who is not the manager picked in a mirrored round
C15_Witness ==
    /\ reply.kind = "pick: joined team"
    /\ reply.was.PickedPlayers \div Len(reply.was.Teams) = 2
    /\ reply.author # reply.was.Manager.ID
    /\ reply.author = reply.was.Players[
           reply.was.Teams[currentPickup(reply.was).Team + 1].First + 1].ID
    /\ Cup.Players[reply.token.val].Team = currentPickup(reply.was).Team

\* What C16 says of the cup `after` the pick of roster slot t for team
\* `team` in the cup `before`
PickEffect(before, after, t, team) ==
    LET old == before.Teams[team + 1] IN
    /\ after.Players[t + 1].Team = team
    /\ after.Players[t + 1].Next = -1
    /\ after.Teams[team + 1].Last = t
    /\ IF old.First = -1
       THEN /\ after.Teams[team + 1].First = t
            /\ \A i \in 1..Len(before.Players) :
                   after.Players[i].Next = before.Players[i].Next
       ELSE /\ after.Teams[team + 1].First = old.First
            /\ after.Players[old.Last + 1].Next = t
            /\ \A i \in 1..Len(before.Players) :
                   i # old.Last + 1 => after.Players[i].Next = before.Players[i].Next
    /\ after.PickedPlayers = before.PickedPlayers + 1
    /\ Len(after.Players) = Len(before.Players)
    /\ \A i \in 1..Len(before.Players) :
           /\ i # t + 1 => after.Players[i].Team = before.Players[i].Team
           /\ after.Players[i].ID = before.Players[i].ID
    /\ Len(after.Teams) = Len(before.Teams)
    /\ \A k \in 1..Len(before.Teams) :
           k # team + 1 => after.Teams[k] = before.Teams[k]
    /\ getLineup(after, team) = Append(getLineup(before, team), t)

\* C16: a successful pick of target t on turn (team, seat) sets
\* Players[t].Team to team, makes t the new tail of that team's list (First =
\* Last = t when the team was empty, otherwise the old Last player's Next = t
\* and Last = t), increases PickedPlayers by exactly 1 and leaves the Team of
\* every other player and the First/Last of every other team unchanged.  The
\* pick that completes the draft does this for t and then, as its automatic
\* last step, for the one player left.
C16_PickAppends ==
    /\ Cup.Status = CupStatusPickup =>
          \A t \in ActiveSlots(Cup) :
              Cup.Players[t + 1].Team = -1 =>
                  PickEffect(Cup, addPlayerToTeam(Cup, t, currentPickup(Cup).Team),
                             t, currentPickup(Cup).Team)
    /\ reply.kind = "pick: joined team" =>
          PickEffect(reply.was, Cup, reply.token.val - 1, currentPickup(reply.was).Team)
    /\ reply.kind = "pick: teams complete" =>
          \E mid \in {addPlayerToTeam(reply.was, reply.token.val - 1,
                                      currentPickup(reply.was).Team)} :
              /\ PickEffect(reply.was, mid, reply.token.val - 1,
                            currentPickup(reply.was).Team)
              /\ PickEffect(mid, reply.report, nextAvailablePlayer(mid),
                            currentPickup(mid).Team)

\* A pick extended a team that already had two players
C16_Witness ==
    /\ reply.kind = "pick: joined team"
    /\ LET team == currentPickup(reply.was).Team
           old == reply.was.Teams[team + 1]
       IN  /\ old.First # -1
           /\ old.First # old.Last
           /\ Cup.Teams[team + 1].Last = reply.token.val - 1
           /\ Cup.Players[old.Last + 1].Next = reply.token.val - 1
           /\ Cup.PickedPlayers = reply.was.PickedPlayers + 1

ReopenKinds ==
    {"reopen: no cup", "reopen: picking has not begun",
     "reopen: only the manager", "reopen: teams discarded, cup reopened"}

\* C17: a reopen by the manager in Pickup leaves the cup registered with
\* Status Signup, no teams, PickedPlayers = 0 and every roster entry, active
\* or substitute, with Team = -1 and Next = -1, while the roster's IDs, names
\* and order are as before.
C17_Reopen ==
    [][( /\ reply'.kind \in ReopenKinds
         /\ Cup.Status = CupStatusPickup ) =>
        \A u \in DraftUsers :
            ( /\ u = Cup.Manager.ID
              /\ handleReopen("c1", u) ) =>
                /\ Cup' # NoCup
                /\ Cup'.Status = CupStatusSignup
                /\ Cup'.Teams = <<>>
                /\ Cup'.PickedPlayers = 0
                /\ Len(Cup'.Players) = Len(Cup.Players)
                /\ \A i \in 1..Len(Cup.Players) :
                       /\ Cup'.Players[i].Team = -1
                       /\ Cup'.Players[i].Next = -1
                       /\ Cup'.Players[i].ID = Cup.Players[i].ID
                       /\ Cup'.Players[i].Name = Cup.Players[i].Name
                /\ Cup'.Manager = Cup.Manager
                /\ Cup'.TeamSize = Cup.TeamSize
      ]_vars

\* Teams with linked players and a substitute were discarded
C17_Witness ==
    /\ reply.kind = "reopen: teams discarded, cup reopened"
    /\ reply.was.PickedPlayers >= 3
    /\ \E i \in 1..Len(reply.was.Players) : reply.was.Players[i].Next # -1
    /\ Len(reply.was.Players) > activePlayerCount(reply.was)
    /\ Cup.Status = CupStatusSignup
    /\ \A i \in 1..Len(Cup.Players) : Cup.Players[i].Next = -1

\* C18: when sign-up was closed keeping k players, a reopen immediately
\* followed by a close keeping k again gives a cup in Pickup with as many
\* teams, all of them empty, PickedPlayers = 0 and the same roster: the cup
\* as the first close left it (team names are not part of the model).
C18_ReopenThenClose ==
    [][( /\ reply'.kind \in CloseKinds
         /\ reply.kind = "reopen: teams discarded, cup reopened"
         /\ closed # NoClose ) =>
        \A u \in RosterUsers, t \in RosterTokens :
            ( /\ u = Cup.Manager.ID
              /\ \/ t = Num(closed.kept)
                 \/ t = NoToken /\ Len(Cup.Players) = closed.kept
              /\ handleClose("c1", u, t) ) =>
                /\ Cup'.Status = CupStatusPickup
                /\ Len(Cup'.Teams) = Len(closed.cup.Teams)
                /\ \A k \in 1..Len(Cup'.Teams) : Cup'.Teams[k] = TeamResetTeam
                /\ Cup'.PickedPlayers = 0
                /\ Cup'.Players = closed.cup.Players
                /\ Cup' = closed.cup
      ]_vars

\* Sign-up was closed a second time, on a roster with substitutes
C18_Witness ==
    /\ reply.kind = "close: registration closed"
    /\ closed.before # NoCup
    /\ closed.before = Cup
    /\ Len(Cup.Teams) = Len(closed.before.Teams)
    /\ Len(Cup.Players) > closed.kept
    /\ Len(Cup.Teams) >= 3

StartKinds ==
    {"start: already started", "start: send failed, cup aborted",
     "start: registration open"}

\* The cup a start by user u registers
Opened(u) ==
    [Status |-> CupStatusSignup, Moderated |-> FALSE, ChannelID |-> "c1", TeamSize |-> 4,
     PickedPlayers |-> 0, Manager |-> makePlayer(u),
     Players |-> <<>>, Teams |-> <<>>]

\* C19 as stated: a start on a channel that has a cup fails and leaves the
\* cup's Status, manager, roster and teams unchanged; a start on a channel
\* with no cup registers a new cup with Status Signup, an empty roster, no
\* teams, PickedPlayers 0, TeamSize 4 and the requester as manager, not in
\* the roster.
C19_StartRegisters ==
    [][reply'.kind \in StartKinds =>
        \A u \in Users, sendOk \in BOOLEAN :
            handleStart("c1", u, sendOk) =>
                IF Cup # NoCup
                THEN /\ reply'.kind = "start: already started"
                     /\ Cup' = Cup
                ELSE /\ Cup' = Opened(u)
                     /\ u \notin IDs(Cup')
      ]_vars

\* C19, amended: a start on a channel that has a cup fails and leaves the
\* cup unchanged; a start on a channel with no cup registers a new cup with
\* Status Signup, an empty roster, no teams, PickedPlayers 0, TeamSize 4 and
\* the requester as manager, not in the roster, when the announcement of the
\* cup is sent, and leaves the channel without a cup when sending it fails.
C19_StartRegistersIfAnnounced ==
    [][reply'.kind \in StartKinds =>
        \A u \in Users, sendOk \in BOOLEAN :
            handleStart("c1", u, sendOk) =>
                IF Cup # NoCup
                THEN /\ reply'.kind = "start: already started"
                     /\ Cup' = Cup
                     /\ Cup'.Status = Cup.Status
                     /\ Cup'.Manager = Cup.Manager
                     /\ Cup'.Players = Cup.Players
                     /\ Cup'.Teams = Cup.Teams
                ELSE IF sendOk
                THEN /\ reply'.kind = "start: registration open"
                     /\ Cup' = Opened(u)
                     /\ u \notin IDs(Cup')
                ELSE /\ reply'.kind = "start: send failed, cup aborted"
                     /\ Cup' = NoCup
      ]_vars

\* A cup was opened on a channel without one
C19_Witness ==
    /\ reply.kind = "start: registration open"
    /\ reply.was = NoCup
    /\ Cup = Opened(reply.author)
    /\ Cup.Manager.ID = reply.author
    /\ Cup.Players = <<>>

\* C20 as stated: creation is checked-and-set atomically.  Of start
\* requests for one channel handled at once, whatever the interleaving, one
\* registers a cup and the others fail as already started: a handler only
\* registers a cup while the channel has none, no two of them announce a
\* cup, and a cup registered for the channel is never replaced by the cup of
\* a second start.
C20_AtomicCreate ==
    [][ /\ (starts.registered # 0 /\ starts'.registered # 0) =>
              starts'.registered = starts.registered
        /\ \A p \in Starts :
              (starts.at[p] = "addCup" /\ starts'.at[p] = "Manager") =>
                  activeCups["c1"] = NoCup
        /\ \A p, q \in Starts :
              ( /\ starts'.at[p] = "registration open"
                /\ starts'.at[q] = "registration open"
                /\ \A r \in Starts : starts'.at[r] # "send failed" ) => p = q
      ]_vars

\* Two start requests have both announced a cup; the channel maps to the
\* cup of the second, the first one's cup is lost
C20_Replaced ==
    /\ starts.at[1] = "registration open"
    /\ starts.at[2] = "registration open"
    /\ starts.at[3] = "getCup"
    /\ starts.registered = 2
    /\ Cup.Manager.ID = 2

AbortKinds == {"abort: no cup", "abort: not allowed", "abort: cup aborted"}

\* C21: an abort by the manager or a super-user, in Signup or in Pickup,
\* removes the cup from the registry whatever its roster and draft progress,
\* so that getCup returns nothing for the channel; a start that follows on
\* the channel registers a fresh cup with no roster, no teams and
\* PickedPlayers 0 (or, its announcement failing, none at all).
C21_AbortRemoves ==
    [][ /\ ( /\ reply'.kind \in AbortKinds
             /\ Cup # NoCup ) =>
            \A u \in Users, hasAdminRole \in BOOLEAN :
                ( /\ Cup.Manager.ID = u \/ hasAdminRole
                  /\ handleAbort("c1", u, hasAdminRole) ) =>
                    /\ reply'.kind = "abort: cup aborted"
                    /\ Cup' = NoCup
                    /\ getCup("c1")' = NoCup
        /\ ( /\ reply'.kind \in StartKinds
             /\ reply.kind = "abort: cup aborted" ) =>
            \A u \in Users, sendOk \in BOOLEAN :
                handleStart("c1", u, sendOk) =>
                    /\ Cup = NoCup
                    /\ Cup' = IF sendOk THEN Opened(u) ELSE NoCup
                    /\ sendOk => /\ Cup'.Players = <<>>
                                 /\ Cup'.Teams = <<>>
                                 /\ Cup'.PickedPlayers = 0
      ]_vars

\* A super-user who is not the manager aborted a draft with players picked
C21_Witness ==
    /\ reply.kind = "abort: cup aborted"
    /\ reply.was.Status = CupStatusPickup
    /\ reply.was.PickedPlayers >= 1
    /\ reply.author # reply.was.Manager.ID
    /\ Cup = NoCup

TeamSizeKinds ==
    {"teamsize: no cup", "teamsize: team size is", "teamsize: only the manager",
     "teamsize: only during sign-up", "teamsize: not a number",
     "teamsize: not a valid team size", "teamsize: already that size",
     "teamsize: changed"}
ModerateKinds ==
    {"moderate: no cup", "moderate: not allowed", "moderate: not a valid option",
     "moderate: already moderated", "moderate: already unmoderated",
     "moderate: now moderated", "moderate: no longer moderated"}
PromoteKinds ==
    {"promote: no cup", "promote: only when registration is open",
     "promote: too soon", "promote: promoted"}
WhoKinds == {"who: no cup", "who: report"}

\* C22: the Status of a cup that stays registered changes only by a close
\* (Signup to Pickup) and by a reopen (Pickup to Signup); add, remove, pick,
\* teamsize, moderate, promote and who leave the Status of the cup as it
\* was, and no registered cup ever has Status Inactive.
C22_StatusChanges ==
    [][ /\ ( /\ Cup # NoCup
             /\ Cup' # NoCup
             /\ Cup'.Status # Cup.Status ) =>
            \/ /\ reply'.kind = "close: registration closed"
               /\ Cup.Status = CupStatusSignup
               /\ Cup'.Status = CupStatusPickup
            \/ /\ reply'.kind = "reopen: teams discarded, cup reopened"
               /\ Cup.Status = CupStatusPickup
               /\ Cup'.Status = CupStatusSignup
        /\ ( /\ reply'.kind \in AddKinds \cup RemoveKinds \cup PickKinds
                                 \cup TeamSizeKinds \cup ModerateKinds
                                 \cup PromoteKinds \cup WhoKinds
             /\ Cup' # NoCup ) =>
            /\ Cup # NoCup
            /\ Cup'.Status = Cup.Status
        /\ Cup' # NoCup => Cup'.Status \in {CupStatusSignup, CupStatusPickup}
      ]_vars

\* Moderation was switched on during a draft with players picked
C22_Witness ==
    /\ reply.kind = "moderate: now moderated"
    /\ reply.was.Status = CupStatusPickup
    /\ Cup.Status = CupStatusPickup
    /\ Cup.Moderated
    /\ Cup.PickedPlayers >= 1

\* C23: during a drafting pass a roster slot whose Team is set keeps that
\* team index through every pick, add and withdrawal, substitution swaps
\* included, up to and including the completion of the draft; Team goes
\* back to -1 only by a reopen, which clears every slot.
C23_TeamKept ==
    [][ ( /\ Cup # NoCup
          /\ Cup.Status = CupStatusPickup ) =>
            LET after == IF reply'.kind = "pick: teams complete"
                         THEN reply'.report
                         ELSE Cup'
            IN
            \A k \in 1..Len(Cup.Players) :
                Cup.Players[k].Team # -1 =>
                    IF reply'.kind = "reopen: teams discarded, cup reopened"
                    THEN \A j \in 1..Len(Cup'.Players) : Cup'.Players[j].Team = -1
                    ELSE /\ after # NoCup
                         /\ k <= Len(after.Players)
                         /\ after.Players[k].Team = Cup.Players[k].Team
      ]_vars

\* A drafted player withdrew and a substitute who signed up after the close
\* took the slot and its team
C23_Witness ==
    /\ reply.kind = "remove: left, substitute takes the place"
    /\ \E k \in 1..activePlayerCount(Cup) :
        /\ reply.was.Players[k].Team # -1
        /\ reply.was.Players[k].ID # Cup.Players[k].ID
        /\ Cup.Players[k].Team = reply.was.Players[k].Team
        /\ Cup.Players[k].ID \in LateUsers

Members(currentCup, t) ==
    {k \in 0..(Len(currentCup.Players) - 1) : currentCup.Players[k + 1].Team = t}

IsPrefix(s, t) == Len(s) <= Len(t) /\ SubSeq(t, 1, Len(s)) = s

\* The linked list of every team of a cup in Pickup is well formed
ListsOk(currentCup) ==
    ( /\ currentCup # NoCup
      /\ currentCup.Status = CupStatusPickup ) =>
        \A t \in 0..(Len(currentCup.Teams) - 1) :
            LET team == currentCup.Teams[t + 1]
                lineup == getLineup(currentCup, t)
            IN
            IF Members(currentCup, t) = {}
            THEN team.First = -1 /\ team.Last = -1
            ELSE /\ lineup # <<>>
                 /\ lineup[1] = team.First
                 /\ lineup[Len(lineup)] = team.Last
                 /\ currentCup.Players[team.Last + 1].Next = -1
                 /\ Range(lineup) = Members(currentCup, t)
                 /\ Len(lineup) = Cardinality(Members(currentCup, t))
                 /\ \A i \in 1..Len(lineup) : lineup[i] < activePlayerCount(currentCup)

\* C24: in every Pickup state each team with no player has First = Last =
\* -1, and the list of every other team runs from First to Last, whose Next
\* is -1, through exactly the slots with that Team, each once, all below the
\* active count; from one state of a pass to the next every team's list
\* keeps its elements in place and grows at the tail only (so the slots stand
\* in the order they were assigned, and First, once set, stays).  (A step
\* that leaves the registry as it was has nothing to show.)
C24_TeamLists ==
    [][ activeCups' # activeCups =>
        /\ ListsOk(Cup)
        /\ ListsOk(Cup')
        /\ ListsOk(reply'.report)
        /\ ( /\ Cup # NoCup
             /\ Cup.Status = CupStatusPickup
             /\ reply'.kind # "reopen: teams discarded, cup reopened" ) =>
            LET after == IF reply'.kind = "pick: teams complete"
                         THEN reply'.report
                         ELSE Cup'
            IN
            /\ after # NoCup
            /\ \A t \in 0..(Len(Cup.Teams) - 1) :
                /\ IsPrefix(getLineup(Cup, t), getLineup(after, t))
                /\ Cup.Teams[t + 1].First # -1 =>
                       after.Teams[t + 1].First = Cup.Teams[t + 1].First
      ]_vars

\* A pick extended a team whose slots are not in roster order
C24_Witness ==
    /\ reply.kind = "pick: teams complete"
    /\ \E t \in 0..(Len(reply.report.Teams) - 1) :
        LET lineup == getLineup(reply.report, t) IN
        /\ Len(lineup) >= 2
        /\ lineup[Len(lineup)] = reply.token.val - 1
        /\ \E i \in 1..(Len(lineup) - 1) : lineup[i] > lineup[i + 1]

Named(k) == naming.cup.Teams[k]

CollideIn(teams, j, k) ==
    \/ teams[j].nameIndex % Len(Attributes) = teams[k].nameIndex % Len(Attributes)
    \/ teams[j].nameIndex \div Len(Attributes) = teams[k].nameIndex \div Len(Attributes)

Collide(j, k) == CollideIn(naming.cup.Teams, j, k)

\* C25: chooseTeamNames returns whatever the random source draws, after at
\* most 100 draws per team: a draw that collides with no earlier team ends
\* the draws of its team, a colliding draw is followed by another one up to
\* the 100th, which is accepted as it is; every team named has an index in
\* 0..A*N-1 and the name of that index, and two teams that share an
\* attribute or a noun imply that the later one used up its 100 draws.
C25_NamesChosen ==
    /\ [](\A k \in 1..Len(naming.cup.Teams) :
            /\ naming.draws[k] <= MaxRetries
            /\ k <= naming.i =>
                /\ Named(k).nameIndex \in 0..(TeamNameCombos - 1)
                /\ naming.draws[k] >= 1
                /\ Named(k).Name =
                       Attributes[(Named(k).nameIndex % Len(Attributes)) + 1] \o " "
                           \o Nouns[(Named(k).nameIndex \div Len(Attributes)) + 1]
                /\ \A j \in 1..(k - 1) : Collide(j, k) => naming.draws[k] = MaxRetries)
    /\ [][ LET k == naming.i + 1 IN
           /\ naming'.draws[k] = naming.draws[k] + 1
           /\ IF \E j \in 1..(k - 1) : CollideIn(naming'.cup.Teams, j, k)
              THEN naming'.i = IF naming'.draws[k] = MaxRetries THEN k ELSE k - 1
              ELSE naming'.i = k
         ]_vars
    /\ <>(naming.done /\ naming.i = Len(naming.cup.Teams))

\* The third team collided with an earlier one at each of its 100 draws and
\* kept the last of them
C25_Witness ==
    /\ naming.done
    /\ Len(naming.cup.Teams) = 3
    /\ naming.draws[2] = 1
    /\ naming.draws[3] = MaxRetries
    /\ Collide(1, 3)
    /\ ~Collide(1, 2)
    /\ naming.cup.longestTeamName = Len(Named(3).Name)

\* The file holds a JSON object that names itself as the file is named
OwnRecord(fs, n) ==
    /\ fs[n].kind = "json"
    /\ "ChannelID" \in DOMAIN fs[n].val
    /\ fs[n].val.ChannelID = n

\* C28: resumeState registers no cup for a file that cannot be read or
\* parsed or whose record names another channel, and leaves that file where
\* it is; it goes on to the other files, each of which it registers under
\* its name; and a file is gone afterwards only if its cup is registered
\* under its ChannelID.
C28_BadFilesSkipped ==
    [][ reply'.kind = "resumeState: directory read" =>
        /\ \A n \in DOMAIN files :
            IF OwnRecord(files, n)
            THEN /\ activeCups'[n] # NoCup
                 /\ activeCups'[n].ChannelID = n
            ELSE /\ activeCups'[n] = NoCup
                 /\ n \in DOMAIN files'
                 /\ files'[n] = files[n]
        /\ \A c \in DOMAIN activeCups' :
            activeCups'[c] # NoCup => c \in DOMAIN files /\ OwnRecord(files, c)
        /\ \A n \in (DOMAIN files) \ (DOMAIN files') :
            /\ activeCups'[n] # NoCup
            /\ activeCups'[n].ChannelID = n
      ]_vars

\* The process has resumed the cups of c1 and c3 and removed their files;
\* the file c2, a record of channel c1, is still there and c2 has no cup
C28_Witness ==
    /\ reply.kind = "resumeState: directory read"
    /\ DOMAIN files = {"c2"}
    /\ files["c2"].kind = "json"
    /\ "ChannelID" \in DOMAIN files["c2"].val
    /\ files["c2"].val.ChannelID = "c1"
    /\ activeCups["c2"] = NoCup
    /\ activeCups["c1"] # NoCup
    /\ activeCups["c3"] # NoCup

\* The fields of a cup that a snapshot is to bring back
SameCup(a, b) ==
    /\ \A f \in {"Status", "Moderated", "PickedPlayers", "Manager", "ChannelID",
                 "GuildID", "TeamSize"} : b[f] = a[f]
    /\ Len(b.Players) = Len(a.Players)
    /\ \A i \in 1..Len(a.Players) :
        \A g \in {"ID", "Name", "Team", "Next"} : b.Players[i][g] = a.Players[i][g]
    /\ Len(b.Teams) = Len(a.Teams)
    /\ \A i \in 1..Len(a.Teams) :
        \A g \in {"First", "Last", "Name"} : b.Teams[i][g] = a.Teams[i][g]

\* C29: a cup that suspendState saved is registered again by resumeState
\* under the same channel with the same Status, Moderated, PickedPlayers,
\* Manager, Players, Teams (First, Last, Name), ChannelID, GuildID and
\* TeamSize; a snapshot with TeamSize 0 or without TeamSize is restored with
\* TeamSize 4.
C29_RoundTrip ==
    [][ reply'.kind = "resumeState: directory read" =>
        /\ \A c \in DOMAIN activeCups :
            ( /\ reply.kind = "suspendState"
              /\ activeCups[c] # NoCup
              /\ c \notin reply.token.val ) =>
                /\ activeCups'[c] # NoCup
                /\ SameCup(activeCups[c], activeCups'[c])
        /\ \A n \in DOMAIN files :
            ( /\ OwnRecord(files, n)
              /\ \/ "TeamSize" \notin DOMAIN files[n].val
                 \/ files[n].val.TeamSize = 0 ) =>
                activeCups'[n].TeamSize = 4
      ]_vars

\* A moderated cup with players drafted was saved and restored: the team
\* names are back, the name indices behind them are not
C29_Witness ==
    /\ reply.kind = "resumeState: directory read"
    /\ Cup # NoCup
    /\ Cup.Status = CupStatusPickup
    /\ Cup.PickedPlayers >= 2
    /\ Cup.Moderated
    /\ Cup.Teams[1].Name = teamName(1)
    /\ Cup.Teams[1].nameIndex = 0
    /\ getLineup(Cup, 0) # <<>>

\* C26: every lookup, insert, delete and iteration on activeCups, in
\* getCup, addCup, deleteCup, resumeState and suspendState, is made by a
\* goroutine that holds lockCups, and no handler holds lockCups while it
\* works on the fields of a cup.
C26_MapUnderLock ==
    /\ \A p \in Handlers :
        /\ procs.handlers[p].at \in {"getCup: lookup", "addCup: insert",
                                     "deleteCup: delete"} => lockCups = p
        /\ procs.handlers[p].at = "fields" => lockCups # p
    /\ procs.main \in {"resumeState: insert", "suspendState: range"} =>
           lockCups = MaxHandlers + 1

\* suspendState is about to range over the map while a handler, holding
\* lockCups, is about to insert into it
C26_RangeDuringInsert ==
    /\ procs.main = "suspendState: range"
    /\ \E p \in Handlers :
        /\ procs.handlers[p].at = "addCup: insert"
        /\ lockCups = p

\* C27: picks on one cup do not exclude each other.  Whenever two pick
\* handlers that computed their turn from the same PickedPlayers have both
\* made their assignment, they passed the checks for the same slot with
\* different targets, and both targets are members of that slot's team: the
\* team got two players for one turn.
HasAssigned(p) ==
    /\ procs[p].assigned
    /\ procs[p].at \in {"PickedPlayers: read", "PickedPlayers: write", "completion"}

C27_TwoPicksOneTurn ==
    \A p \in Pickers, q \in Pickers :
        (/\ p # q
         /\ Cup # NoCup
         /\ HasAssigned(p)
         /\ HasAssigned(q)
         /\ procs[p].picked = procs[q].picked)
        => /\ procs[p].pickup = procs[q].pickup
           /\ procs[p].index # procs[q].index
           /\ {procs[p].index, procs[q].index} \subseteq Members(Cup, procs[p].pickup.Team)

\* Both handlers saw no player picked, both have assigned their target,
\* and the first team has two players while the second has none
C27_Witness ==
    /\ Cup # NoCup
    /\ HasAssigned(1)
    /\ HasAssigned(2)
    /\ procs[1].picked = 0
    /\ procs[2].picked = 0
    /\ getLineup(Cup, 0) = <<procs[1].index, procs[2].index>>
    /\ getLineup(Cup, 1) = <<>>

\* C30: with the handlers run one at a time and the developer flags off,
\* no request makes the code index Players or Teams out of range or divide
\* by zero: in every cup that the commands can bring about, a pick, remove
\* or close from any user with no argument, a word or any number, the
\* report that ends a handler, findAvailablePlayer, currentPickup in a
\* draft and targetPlayerCount reach no such access.
FaultAuthors(currentCup) ==
    {0, currentCup.Manager.ID}
        \cup {currentCup.Players[k].ID : k \in 1..Len(currentCup.Players)}

FaultArguments(currentCup) ==
    {NoToken, BadToken}
        \cup {Num(n) : n \in (0 - 2)..(Len(currentCup.Players) + 2)}

LateSlots(currentCup) ==
    IF activePlayerCount(currentCup) > MaxSwapActive THEN {}
    ELSE {k \in 1..Len(currentCup.Players) : currentCup.Players[k].ID \in LateUsers}

SubstitutesUnassigned(currentCup) ==
    \A k \in (activePlayerCount(currentCup) + 1)..Len(currentCup.Players) :
        currentCup.Players[k].Team = -1

FindsActiveOnly(currentCup) ==
    LET active == activePlayerCount(currentCup)
        free == {i \in 0..(active - 1) : currentCup.Players[i + 1].Team = -1}
    IN  /\ \A nth \in 0..active :
               findAvailablePlayer(currentCup, nth) \in free \cup {-1}
        /\ findAvailablePlayer(currentCup, 0) =
               IF free = {} THEN -1 ELSE CHOOSE i \in free : \A j \in free : i <= j

C31_LateBehindActive ==
    (Cup # NoCup /\ Cup.Status = CupStatusPickup) =>
        /\ \A k \in LateSlots(Cup) : k - 1 >= activePlayerCount(Cup)
        /\ SubstitutesUnassigned(Cup)
        /\ FindsActiveOnly(Cup)

\* C31, amended: a player added after the close is appended behind the
\* active slots and comes to sit in an active slot only when a withdrawal
\* swaps it in for the player who leaves; in every draft no slot at or above
\* the active count has a team, by pick or by auto-fill, and
\* findAvailablePlayer returns only indices below the active count, the
\* lowest unassigned one for nth = 0.
LateInActive(currentCup) ==
    {k \in LateSlots(currentCup) : k - 1 < activePlayerCount(currentCup)}

C31_LateSwappedIn ==
    /\ []((Cup # NoCup /\ Cup.Status = CupStatusPickup) =>
              SubstitutesUnassigned(Cup) /\ FindsActiveOnly(Cup))
    /\ [][ /\ reply'.kind = "pick: teams complete" => SubstitutesUnassigned(reply'.report)
           /\ (Cup # NoCup /\ Cup' # NoCup /\ Cup'.Status = CupStatusPickup) =>
                  /\ reply'.kind = "add: joined as substitute" =>
                         /\ Len(Cup'.Players) - 1 >= activePlayerCount(Cup')
                         /\ LateInActive(Cup') = LateInActive(Cup)
                  /\ LateInActive(Cup') \ LateInActive(Cup) # {} =>
                         reply'.kind = "remove: left, substitute takes the place"
         ]_vars

\* A late user has just been swapped into the slot of a player who had no
\* team yet, and another slot of the draft is already on a team
C31_Witness ==
    /\ Cup # NoCup
    /\ Cup.Status = CupStatusPickup
    /\ reply.kind = "remove: left, substitute takes the place"
    /\ \E k \in LateInActive(Cup) : Cup.Players[k].Team = -1
    /\ Cup.PickedPlayers > 0

----------------------------------------------------------------------------
(* C32: an operation requested in the wrong phase changes nothing in the    *)
(* cup's Status, roster, teams, PickedPlayers and TeamSize: a close or a    *)
(* team-size change while the cup is in Pickup, a pick or a reopen while it *)
(* is in Signup. The cup stays registered.                                  *)

SameDraft(before, after) ==
    /\ after # NoCup
    /\ after.Status = before.Status
    /\ after.Players = before.Players
    /\ after.Teams = before.Teams
    /\ after.PickedPlayers = before.PickedPlayers
    /\ after.TeamSize = before.TeamSize

C32_WrongPhase ==
    [][ /\ ( /\ Cup # NoCup
             /\ Cup.Status = CupStatusPickup
             /\ reply'.kind \in CloseKinds \cup TeamSizeKinds ) =>
            /\ SameDraft(Cup, Cup')
            /\ reply'.kind \in {"close: only the manager", "close: already closed",
                                "teamsize: team size is", "teamsize: only the manager",
                                "teamsize: only during sign-up"}
        /\ ( /\ Cup # NoCup
             /\ Cup.Status = CupStatusSignup
             /\ reply'.kind \in PickKinds \cup ReopenKinds ) =>
            /\ SameDraft(Cup, Cup')
            /\ reply'.kind \in {"pick: not picking yet", "reopen: picking has not begun"}
      ]_vars

C32_Witness ==
    /\ Cup # NoCup
    /\ Cup.Status = CupStatusPickup
    /\ Cup.PickedPlayers > 0
    /\ reply.kind = "teamsize: only during sign-up"
    /\ reply.was = Cup

----------------------------------------------------------------------------
(* C33: a close, a reopen or a team-size change requested by a user whose   *)
(* ID is not the manager's leaves the cup registered with its Status,       *)
(* roster, teams, PickedPlayers and TeamSize unchanged, in every state, a   *)
(* Signup with too few players included; an abort requested by a user who   *)
(* is neither the manager nor holds the admin role leaves the cup           *)
(* registered.                                                              *)

TeamSizeArguments == {NoToken} \cup {Num(n) : n \in 1..MaxTeamSize}

C33_ManagerOnly ==
    [][ Cup # NoCup =>
          \A u \in AllUsers \ {Cup.Manager.ID} :
            /\ \A t \in AllTokens :
                   handleClose("c1", u, t) => SameDraft(Cup, Cup')
            /\ handleReopen("c1", u) => SameDraft(Cup, Cup')
            /\ \A t \in TeamSizeArguments :
                   handleTeamSize("c1", u, t) => SameDraft(Cup, Cup')
            /\ handleAbort("c1", u, FALSE) => Cup' = Cup
      ]_vars

C33_Witness ==
    /\ Cup # NoCup
    /\ Cup.Status = CupStatusSignup
    /\ Len(Cup.Players) < minPlayerCount(Cup)
    /\ Len(Cup.Players) > 0
    /\ reply.kind = "close: only the manager"
    /\ reply.was = Cup

----------------------------------------------------------------------------
(* C34: in the single-file variant of the handlers every close that enters  *)
(* Pickup, the close after a reopen that followed one or more picks         *)
(* included, leaves PickedPlayers = 0, so the first turn of the new pass is *)
(* team 0, seat 0, picked by the manager.                                   *)

C34_CloseResetsCount ==
    [][ reply'.kind = "close: registration closed" =>
          /\ Cup'.PickedPlayers = 0
          /\ currentPickup(Cup') = [Team |-> 0, Player |-> 0]
          /\ whoPicks(Cup', currentPickup(Cup')) = Cup'.Manager
      ]_vars

C34_CountSurvivesReopen ==
    /\ Cup # NoCup
    /\ Cup.Status = CupStatusPickup
    /\ reply.kind = "close: registration closed"
    /\ reply.was.Status = CupStatusSignup
    /\ Cup.PickedPlayers > 0
    /\ \A k \in 1..Len(Cup.Players) : Cup.Players[k].Team = -1
    /\ \A k \in 1..Len(Cup.Teams) : Cup.Teams[k].First = -1

----------------------------------------------------------------------------
(* C35: with the handlers run one at a time and the developer flags off,    *)
(* every registered cup in Pickup has TeamSize >= 1, at least two teams, at *)
(* least activePlayerCount players and 0 <= PickedPlayers <=                *)
(* activePlayerCount - 2 (the pick that brings the count to                 *)
(* activePlayerCount - 1 fills the last slot and removes the cup); TeamSize *)
(* and the number of teams do not change from one Pickup state to the next. *)

PickupShape(currentCup) ==
    /\ currentCup.TeamSize >= 1
    /\ Len(currentCup.Teams) >= MinimumTeams
    /\ Len(currentCup.Players) >= activePlayerCount(currentCup)
    /\ currentCup.PickedPlayers >= 0
    /\ currentCup.PickedPlayers <= activePlayerCount(currentCup) - 2

C35_PickupShape ==
    /\ []((Cup # NoCup /\ Cup.Status = CupStatusPickup) => PickupShape(Cup))
    /\ [][ ( /\ Cup # NoCup
             /\ Cup.Status = CupStatusPickup
             /\ Cup' # NoCup
             /\ Cup'.Status = CupStatusPickup ) =>
               /\ Cup'.TeamSize = Cup.TeamSize
               /\ Len(Cup'.Teams) = Len(Cup.Teams)
               /\ activePlayerCount(Cup') = activePlayerCount(Cup)
         ]_vars

C35_Witness ==
    /\ Cup # NoCup
    /\ Cup.Status = CupStatusPickup
    /\ reply.kind = "pick: joined team"
    /\ Cup.PickedPlayers = activePlayerCount(Cup) - 2
    /\ Cup.PickedPlayers > 0
    /\ Cup.TeamSize # DefaultTeamSize

----------------------------------------------------------------------------
(* C36: in every reachable Pickup state, for every team size, those above 4 *)
(* included, with n teams, seat = PickedPlayers div n and r = PickedPlayers *)
(* mod n: exactly r teams have seat + 1 players and the other n - r teams   *)
(* have seat players, so team sizes differ by at most one and no team has   *)
(* more than TeamSize players.                                              *)

TeamCount(currentCup, t) ==
    Cardinality({k \in 1..Len(currentCup.Players) : currentCup.Players[k].Team = t})

TeamsOfSize(currentCup, size) ==
    {t \in 0..(Len(currentCup.Teams) - 1) : TeamCount(currentCup, t) = size}

C36_Balanced ==
    (Cup # NoCup /\ Cup.Status = CupStatusPickup) =>
        LET n == Len(Cup.Teams)
            seat == Cup.PickedPlayers \div n
            r == Cup.PickedPlayers % n
        IN  /\ Cardinality(TeamsOfSize(Cup, seat + 1)) = r
            /\ seat >= 4 => TeamsOfSize(Cup, seat + 1) = 0..(r - 1)
            /\ Cardinality(TeamsOfSize(Cup, seat)) = n - r
            /\ \A t \in 0..(n - 1) : TeamCount(Cup, t) <= Cup.TeamSize
            /\ \A t, u \in 0..(n - 1) :
                   TeamCount(Cup, t) - TeamCount(Cup, u) \in {-1, 0, 1}

C36_Witness ==
    /\ Cup # NoCup
    /\ Cup.Status = CupStatusPickup
    /\ Cup.TeamSize = MaxOrderTeamSize
    /\ Len(Cup.Teams) >= 3
    /\ Cup.PickedPlayers \div Len(Cup.Teams) = 4
    /\ Cup.PickedPlayers % Len(Cup.Teams) > 0
    /\ TeamCount(Cup, 0) = 5

----------------------------------------------------------------------------
(* C37: the draft cannot get stuck.  In every registered Pickup state       *)
(* whoPicks(currentPickup()) returns a player and at least two active slots *)
(* are unassigned, so a pick request of that player for the first available *)
(* slot is accepted; and when accepted picks keep being made (weak          *)
(* fairness) and nobody reopens or aborts, the cup is eventually completed  *)
(* and removed from the registry, sign-ups and withdrawals in between       *)
(* notwithstanding.                                                         *)

Unassigned(currentCup) ==
    {k \in 1..activePlayerCount(currentCup) : currentCup.Players[k].Team = -1}

CanPick(currentCup) ==
    LET who == whoPicks(currentCup, currentPickup(currentCup)) IN
    /\ who # NoPlayer
    /\ Cardinality(Unassigned(currentCup)) >= 2
    /\ nextAvailablePlayer(currentCup) # -1
    /\ accepts(currentCup, who.ID, Num(nextAvailablePlayer(currentCup) + 1))

C37_DraftCompletes ==
    /\ []((Cup # NoCup /\ Cup.Status = CupStatusPickup) => CanPick(Cup))
    /\ (Cup # NoCup /\ Cup.Status = CupStatusPickup) ~> (Cup = NoCup)

C37_Witness ==
    /\ Cup = NoCup
    /\ reply.kind = "pick: teams complete"
    /\ \E k \in 1..Len(reply.report.Players) :
           /\ reply.report.Players[k].ID # k
           /\ reply.report.Players[k].Team # -1
    /\ reply.report.PickedPlayers = activePlayerCount(reply.report)

----------------------------------------------------------------------------
(* C38: when a team's captain (the slot Teams[t].First) withdraws during    *)
(* Pickup and a substitute exists, the substitute swapped into that slot is *)
(* the player whoPicks returns for team t at every seat >= 1, and the       *)
(* withdrawn user's pick requests for team t are rejected.                  *)

LiveTeams == 0..(MinimumTeams - 1)

Captain(currentCup, t) == currentCup.Players[currentCup.Teams[t + 1].First + 1]

\* the last request was a withdrawal that swapped a substitute, newcomer,
\* into the captain's slot of team t, which user leaver held
CaptainLeft(leaver, newcomer, t) ==
    /\ reply.kind = "remove: left, substitute takes the place"
    /\ reply.was.Teams[t + 1].First # -1
    /\ Captain(reply.was, t).ID = leaver
    /\ Captain(Cup, t).ID = newcomer
    /\ leaver # newcomer

\* the last request was a pick for team t at a seat >= 1, accepted from user u
PickedFor(u, t) ==
    /\ reply.kind \in {"pick: joined team", "pick: teams complete"}
    /\ reply.author = u
    /\ currentPickup(reply.was).Team = t
    /\ currentPickup(reply.was).Player >= 1

TurnOf(t) ==
    /\ Cup # NoCup
    /\ Cup.Status = CupStatusPickup
    /\ currentPickup(Cup).Team = t
    /\ currentPickup(Cup).Player >= 1

\* C38 as stated: from the first withdrawal of a captain on, for the rest
\* of the draft
C38_FromThenOn ==
    handover.leaver # 0 =>
        /\ ~PickedFor(handover.leaver, handover.team)
        /\ TurnOf(handover.team) =>
               whoPicks(Cup, currentPickup(Cup)).ID = handover.newcomer

\* C38, amended: the withdrawal puts the substitute into the captain's slot,
\* whoPicks returns the user in that slot for team t at every seat >= 1, and
\* a pick for team t at a seat >= 1 is accepted from that user only; this
\* lasts while the substitute holds the slot.
C38_WhileInSlot ==
    /\ [](\A t \in LiveTeams : \A leaver \in LiveUsers : \A newcomer \in LiveUsers :
              CaptainLeft(leaver, newcomer, t) =>
                  /\ newcomer = reply.was.Players[activePlayerCount(reply.was) + 1].ID
                  /\ leaver \notin IDs(Cup)
                  /\ \A seat \in 1..(Cup.TeamSize - 1) :
                         whoPicks(Cup, [Team |-> t, Player |-> seat]).ID = newcomer)
    /\ [](\A t \in LiveTeams :
              TurnOf(t) => whoPicks(Cup, currentPickup(Cup)) = Captain(Cup, t))
    /\ [][ \A t \in LiveTeams :
               ( /\ TurnOf(t)
                 /\ reply'.kind \in {"pick: joined team", "pick: teams complete"} ) =>
                   reply'.author = Captain(Cup, t).ID
         ]_vars

\* the captain of the team whose turn it is has just withdrawn
C38_Witness ==
    \E t \in LiveTeams : \E leaver \in LiveUsers : \E newcomer \in LiveUsers :
        /\ CaptainLeft(leaver, newcomer, t)
        /\ TurnOf(t)
        /\ whoPicks(Cup, currentPickup(Cup)).ID = newcomer
        /\ Cup.Manager.ID \notin {leaver, newcomer}

----------------------------------------------------------------------------
(* C39: a handler that removes a cup from the registry removes only the cup *)
(* it fetched: in every interleaving of concurrent handlers on one channel  *)
(* the cup that a handler's deleteCup takes out of activeCups is the one    *)
(* its getCup or addCup returned, never a cup that a start registered       *)
(* afterwards.                                                              *)

C39_DeletesFetchedCup ==
    [][ \A p \in Handlers :
          ( /\ procs.handlers[p].at = "deleteCup: delete"
            /\ procs'.handlers[p].at = "deleteCup: Unlock"
            /\ getCup("c1") # NoCup ) =>
              procs.registered = procs.handlers[p].cup
      ]_vars

\* an abort that fetched one cup is about to delete the cup that a later
\* start registered
C39_DeletesLaterCup ==
    \E p \in Handlers :
        /\ procs.handlers[p].op = "abort"
        /\ procs.handlers[p].at = "deleteCup: delete"
        /\ lockCups = p
        /\ getCup("c1") # NoCup
        /\ procs.registered \in Handlers \ {p}
        /\ procs.handlers[p].cup # procs.registered

====
